---- MODULE Spec2Model ----
(***************************************************************************)
(* Model of the KataGo analysis-engine client (src/katago_client.py):      *)
(* one KataGoClient object, the caller threads that use it, the engine     *)
(* processes it launches and the stdout reader threads it starts.          *)
(***************************************************************************)
EXTENDS Integers, FiniteSets, Sequences, TLC

\* ------------------------------------------------------------------ bounds
NumCallers == 2     \* caller threads using the client concurrently
MaxIds     == 2     \* analyze calls (request identifiers) issued in one run
MaxProcs   == 2     \* engine processes launched in one run
MaxReaders == 1     \* stdout reader threads alive at the same time
MaxStops   == 1     \* stop() calls that find a process handle in one run
MaxErrLines == 2    \* lines the engine processes print on stderr in one run
MaxHistLines == 21  \* the same, where nothing but the stderr history is followed
PipeCap    == 1     \* query lines the stdin pipe holds for an engine that reads none
MaxBoard   == 20    \* largest board size a point is converted for
MaxMoveInfos == 3   \* candidate moves in a reply that is decoded
MaxVisits  == 2     \* largest visit count of a candidate move
MaxMoves   == 2     \* moves of a position that is encoded
MaxMapSize == 2     \* lines of the board a territory map is drawn for

Threads == 1..NumCallers
Ids     == 1..MaxIds
Pids    == 1..MaxProcs
Readers == 1..MaxReaders

\* ------------------------------------------------------------------- state
VARIABLES
    pc,               \* position of every caller thread
    qid,              \* request id of the call a thread is in (0: none)
    nextId,           \* number of ids generated by uuid4 so far
    process,          \* self.process: 0 is None, else the pid of the handle
    procState,        \* per pid: "unborn", "running" or "exited"
    stdin,            \* per pid: ids of the query lines the engine received
    pending_requests, \* keys of self.pending_requests (one Event per key)
    events,           \* ids whose threading.Event is set
    responses,        \* self.responses: dict from key to reply object
    lock,             \* holder of self._lock
    stops,            \* number of stop() calls that found a process handle
    rpc,              \* position of every stdout reader thread
    rstream,          \* pid whose stdout a reader is blocked on in readline
    rline,            \* the parsed line a reader is about to store
    rjunk,            \* per reader: the line before the one in hand was not JSON
    exits,            \* the kinds of line that have ended a reader loop so far
    status,           \* per id: how the analyze call with that id ended
    returned,         \* per id of a call that returned a result: the reply
    timedout,         \* ids whose event.wait ran into the wait bound
    late,             \* ids for which a reply was stored after the timeout
    regWhile,         \* per id: the ids that were being waited for when it registered
    unlocked,         \* the dictionaries that were accessed without the lock
    absent,           \* the configured path that names no file ("none": all exist)
    startup_error,    \* self._startup_error
    errpipe,          \* per pid: stderr lines the process printed, not read yet
    estream,          \* pids whose stderr a stderr reader thread is blocked on
    stderr_lines,     \* number of lines in self._stderr_lines
    stderr_output,    \* per id: the stderr lines the outcome of the call carries
    stalled,          \* pids of running engines that no longer read their stdin
    unread,           \* per pid: query lines in the stdin pipe of a stalled engine
    launch_cache,     \* the keys self.responses held when the process was launched
    codec_in,         \* the arguments of the last call of a conversion function
    codec_out         \* what that call returned or raised

vars == <<pc, qid, nextId, process, procState, stdin,
          pending_requests, events, responses, lock, stops, rpc, rstream,
          rline, rjunk, exits, status, returned, timedout, late, regWhile, unlocked,
          absent, startup_error, errpipe, estream, stderr_lines, stderr_output,
          stalled, unread, launch_cache, codec_in, codec_out>>

clientVars == <<pending_requests, events, responses>>
procVars   == <<process, procState, stdin, launch_cache>>
readerVars == <<rpc, rstream, rline, rjunk, exits>>
histVars   == <<status, returned, timedout, late, regWhile>>
errVars    == <<errpipe, estream, stderr_lines>>
pipeVars   == <<stalled, unread>>
codecVars  == <<codec_in, codec_out>>
envVars    == <<absent, startup_error, errVars, stderr_output, pipeVars, codecVars>>

\* ----------------------------------------------------------------- helpers
Free         == <<"free", 0>>
ByThread(t)  == <<"thread", t>>
ByReader(r)  == <<"reader", r>>

\* A step by `who` reads or writes the dictionary `tbl`.
Access(tbl, who) == unlocked' = IF lock = who THEN unlocked ELSE unlocked \cup {tbl}
NoAccess         == unlocked' = unlocked

\* Lines the engine can print on stdout. A reply carries the id it answers;
\* id 0 stands for an id that no query of this client carries.
Reply(i)   == [kind |-> "reply", id |-> i]
Junk(k)    == [kind |-> k, id |-> 0]
JunkKinds  == {"blank", "garbage", "nonobject", "noid", "badid"}
NoLine     == Junk("none")

Put(d, k, v) == [x \in (DOMAIN d) \cup {k} |-> IF x = k THEN v ELSE d[x]]
Del(d, k)    == [x \in (DOMAIN d) \ {k} |-> d[x]]

IsAlive == process # 0 /\ procState[process] = "running"

\* The paths the client is constructed with, and the ones start() tests with
\* os.path.exists, in the order of the tests.
ConfigPaths  == {"katago_path", "model_path", "config_path"}

\* Faulty variant: start() tests the executable only.
CheckedPathsExecutableOnly == <<"katago_path">>

CheckedPaths == <<"katago_path", "model_path">>
IsChecked(m) == \E k \in 1..Len(CheckedPaths) : CheckedPaths[k] = m

\* The values of self._startup_error, by what the message holds: the path it
\* names and the stderr text it quotes (a number of lines). None and the
\* message of a failed Popen hold neither.
NoError              == [path |-> "none", text |-> 0]
NotFound(path)       == [path |-> path, text |-> 0]
PopenFailed          == [path |-> "none", text |-> 0]

\* Faulty variant: the message leaves the stderr text out.
DiedImmediatelyBare(text) == [path |-> "none", text |-> 0]

DiedImmediately(text) == [path |-> "none", text |-> text]

\* The lines of self._stderr_lines are numbered 1..n in the order they were
\* appended; lines[-k:] of n lines is the lines numbered LastLines(n, k).
LastLines(n, k) == (IF n > k THEN n - k + 1 ELSE 1)..n

SendTail == 20      \* _send_query: self._stderr_lines[-20:]
WaitTail == 10      \* analyze_position: self._stderr_lines[-10:]

\* Faulty variant: the broken-pipe message leaves the stderr lines out.
BrokenPipeMessageBare == {}

\* The stderr lines in the message of the RuntimeError _send_query raises on a
\* broken pipe.
BrokenPipeMessage == LastLines(stderr_lines, SendTail)

\* stderr_tail of analyze_position: built when the response is None, printed
\* in debug mode only and not returned.
StderrTail == LastLines(stderr_lines, WaitTail)

\* The stderr lines analyze_position hands to its caller with the None of a
\* timeout: none (`return None`), and the tool of the server answers with a
\* fixed text.
TimeoutDiagnostics == {}

\* The stderr readers left when process p exits: a reader blocked on the
\* stderr of p with nothing left to read gets end of file and ends.
AfterExit(p) == IF errpipe[p] = 0 THEN estream \ {p} ELSE estream

\* The stdin pipe of the current process is full and its engine reads nothing:
\* a write blocks.
WriteBlocks == IsAlive /\ process \in stalled /\ unread[process] >= PipeCap

\* No conversion function has been called yet.
NoCall == [op |-> "none"]

Init ==
    /\ pc = [t \in Threads |-> "idle"]
    /\ qid = [t \in Threads |-> 0]
    /\ nextId = 0
    /\ process = 0
    /\ procState = [p \in Pids |-> "unborn"]
    /\ stdin = [p \in Pids |-> {}]
    /\ pending_requests = {}
    /\ events = {}
    /\ responses = << >>
    /\ lock = Free
    /\ stops = 0
    /\ rpc = [r \in Readers |-> "off"]
    /\ rstream = [r \in Readers |-> 0]
    /\ rline = [r \in Readers |-> NoLine]
    /\ rjunk = [r \in Readers |-> FALSE]
    /\ exits = {}
    /\ status = [i \in Ids |-> "unused"]
    /\ returned = << >>
    /\ timedout = {}
    /\ late = {}
    /\ regWhile = [i \in Ids |-> {}]
    /\ unlocked = {}
    /\ absent = "none"
    /\ startup_error = NoError
    /\ errpipe = [p \in Pids |-> 0]
    /\ estream = {}
    /\ stderr_lines = 0
    /\ stderr_output = [i \in Ids |-> {}]
    /\ stalled = {}
    /\ unread = [p \in Pids |-> 0]
    /\ launch_cache = {}
    /\ codec_in = NoCall
    /\ codec_out = NoCall


\* ------------------------------------------------- conversion functions
\* Texts are sequences of one-character strings.
UpperCase == <<"A", "B", "C", "D", "E", "F", "G", "H", "I", "J", "K", "L", "M",
               "N", "O", "P", "Q", "R", "S", "T", "U", "V", "W", "X", "Y", "Z">>
LowerCase == <<"a", "b", "c", "d", "e", "f", "g", "h", "i", "j", "k", "l", "m",
               "n", "o", "p", "q", "r", "s", "t", "u", "v", "w", "x", "y", "z">>
Digits    == <<"0", "1", "2", "3", "4", "5", "6", "7", "8", "9">>

\* seq.index(c): the first position of c in seq, counted from 0 (-1: none).
Index(seq, c) ==
    IF \E k \in 1..Len(seq) : seq[k] = c
    THEN (CHOOSE k \in 1..Len(seq) : seq[k] = c /\ \A j \in 1..(k - 1) : seq[j] # c) - 1
    ELSE -1

\* c.upper() and c.lower() of one character.
Upper(c) == IF Index(LowerCase, c) >= 0 THEN UpperCase[Index(LowerCase, c) + 1] ELSE c
Lower(c) == IF Index(UpperCase, c) >= 0 THEN LowerCase[Index(UpperCase, c) + 1] ELSE c

\* str(n) of a natural number: its decimal digits.
RECURSIVE Decimal(_)
Decimal(n) ==
    IF n < 10 THEN <<Digits[n + 1]>>
    ELSE Decimal(n \div 10) \o <<Digits[(n % 10) + 1]>>

\* int(text) of a text of decimal digits (-1: ValueError).
RECURSIVE ParseInt(_)
ParseInt(text) ==
    IF text = << >> THEN -1
    ELSE LET d == Index(Digits, text[Len(text)])
             front == SubSeq(text, 1, Len(text) - 1) IN
         IF d < 0 THEN -1
         ELSE IF front = << >> THEN d
         ELSE IF ParseInt(front) < 0 THEN -1
         ELSE 10 * ParseInt(front) + d

\* What a call returns (err "none") or the exception it raises.
Returns(v) == [err |-> "none", val |-> v]
Raises(e)  == [err |-> e, val |-> << >>]

\* Faulty variant: the column letters run on through I.
lettersWithI == <<"A", "B", "C", "D", "E", "F", "G", "H", "I", "J", "K", "L", "M",
                  "N", "O", "P", "Q", "R", "S">>

\* letters = "ABCDEFGHJKLMNOPQRST": the column letters, without I.
letters == <<"A", "B", "C", "D", "E", "F", "G", "H", "J", "K", "L", "M", "N",
             "O", "P", "Q", "R", "S", "T">>

\* coord_to_gtp: f"{letters[col]}{board_size - row}"; a column past the last
\* letter raises IndexError.
coord_to_gtp(row, col, board_size) ==
    IF col >= Len(letters) THEN Raises("IndexError")
    ELSE Returns(<<letters[col + 1]>> \o Decimal(board_size - row))

\* Faulty variant: the row number is not counted back from the bottom.
gtp_to_coordNoFlip(gtp_point, board_size) ==
    IF Index(letters, Upper(gtp_point[1])) < 0 \/ ParseInt(Tail(gtp_point)) < 0
    THEN Raises("ValueError")
    ELSE Returns(<<ParseInt(Tail(gtp_point)) - 1, Index(letters, Upper(gtp_point[1]))>>)

\* gtp_to_coord: col = letters.index(gtp_point[0].upper()),
\* row = board_size - int(gtp_point[1:]).
gtp_to_coord(gtp_point, board_size) ==
    IF Index(letters, Upper(gtp_point[1])) < 0 \/ ParseInt(Tail(gtp_point)) < 0
    THEN Raises("ValueError")
    ELSE Returns(<<board_size - ParseInt(Tail(gtp_point)),
                   Index(letters, Upper(gtp_point[1]))>>)

\* gtp_to_coord(coord_to_gtp(row, col, N), N): an exception of the inner call
\* is the outcome of the whole expression.
RoundTrip(row, col, board_size) ==
    IF coord_to_gtp(row, col, board_size).err # "none"
    THEN coord_to_gtp(row, col, board_size)
    ELSE gtp_to_coord(coord_to_gtp(row, col, board_size).val, board_size)

\* A point of a board is translated to its GTP name and back (a run follows
\* one call of a conversion function).
ConvertPoint ==
    /\ codec_in = NoCall
    /\ \E n \in 1..MaxBoard : \E row, col \in 0..(n - 1) :
        /\ codec_in' = [op |-> "coord", board_size |-> n, row |-> row, col |-> col]
        /\ codec_out' = [op |-> "coord", gtp |-> coord_to_gtp(row, col, n),
                         back |-> RoundTrip(row, col, n)]
        /\ UNCHANGED <<pc, qid, nextId, procVars, clientVars, lock, stops,
                       readerVars, histVars, unlocked, absent, startup_error,
                       errVars, stderr_output, pipeVars>>

\* A JSON object is a function from its keys; an absent key is outside
\* its domain. Floats are counted in hundredths (0.5 is 50).
\* obj.get(key, default)
Get(obj, key, default) == IF key \in DOMAIN obj THEN obj[key] ELSE default

\* The object with the given key when a value is given (a set of at most one
\* value), the empty object when none is.
Field(key, opt) ==
    IF opt = {} THEN [k \in {} |-> 0] ELSE key :> (CHOOSE v \in opt : TRUE)
Opt(values) == {{}} \cup {{v} : v \in values}

\* Faulty variant: the candidates are left in the order of the reply.
SortByVisitsNoSort(move_infos) == move_infos

\* move_infos.sort(key=lambda x: x.visits, reverse=True): a stable sort,
\* candidates of equal visits keep the order of the reply.
RECURSIVE SortByVisits(_)
SortByVisits(move_infos) ==
    IF move_infos = << >> THEN << >>
    ELSE LET front == SortByVisits(SubSeq(move_infos, 1, Len(move_infos) - 1))
             x == move_infos[Len(move_infos)]
             n == Cardinality({k \in 1..Len(front) : front[k].visits >= x.visits})
         IN SubSeq(front, 1, n) \o <<x>> \o SubSeq(front, n + 1, Len(front))

\* MoveInfo(move=mi.get("move", ""), visits=mi.get("visits", 0), ...)
MoveInfo(mi) ==
    [move       |-> Get(mi, "move", ""),
     visits     |-> Get(mi, "visits", 0),
     winrate    |-> Get(mi, "winrate", 50),
     score_lead |-> Get(mi, "scoreLead", 0),
     pv         |-> Get(mi, "pv", << >>),
     prior      |-> Get(mi, "prior", 0),
     utility    |-> Get(mi, "utility", 0)]

\* Faulty variant: a reply without rootInfo is given win probability 0.
RootDefaultsZero == [winrate |-> 0, scoreLead |-> 0, visits |-> 0]

\* root_info.get("winrate", 0.5), .get("scoreLead", 0.0), .get("visits", 0)
RootDefaults == [winrate |-> 50, scoreLead |-> 0, visits |-> 0]

\* Faulty variant: the root win probability is read with root_info["winrate"].
RequiredFieldsWinrate == {"winrate"}

\* The fields _parse_response reads with obj[key]: none, every read is a
\* .get with a default.
RequiredFields == {}

\* _parse_response(response, state)
parse_response(response, state) ==
    LET root_info      == Get(response, "rootInfo", [k \in {} |-> 0])
        move_infos_raw == Get(response, "moveInfos", << >>)
        move_infos     == [k \in 1..Len(move_infos_raw) |-> MoveInfo(move_infos_raw[k])]
    IN IF \E f \in RequiredFields :
             \/ f \notin DOMAIN root_info
             \/ \E k \in 1..Len(move_infos_raw) : f \notin DOMAIN move_infos_raw[k]
       THEN Raises("KeyError")
       ELSE Returns(
            [id              |-> Get(response, "id", ""),
             turn_number     |-> Get(response, "turnNumber", Len(state.moves)),
             current_player  |-> state.current_player,
             root_winrate    |-> Get(root_info, "winrate", RootDefaults.winrate),
             root_score_lead |-> Get(root_info, "scoreLead", RootDefaults.scoreLead),
             root_visits     |-> Get(root_info, "visits", RootDefaults.visits),
             move_infos      |-> SortByVisits(move_infos),
             ownership       |-> Get(response, "ownership", "None"),
             raw_response    |-> response])

\* The candidate moves a reply may list: each with or without its fields.
RawMoveInfos ==
    {("move" :> m) @@ Field("visits", v) @@ Field("winrate", w) :
        m \in {"D4", "Q16"}, v \in Opt(0..MaxVisits), w \in Opt({62})}

\* The rootInfo objects a reply may carry.
RootInfos ==
    {Field("winrate", w) @@ Field("scoreLead", s) @@ Field("visits", v) :
        w \in Opt({62}), s \in Opt({15}), v \in Opt({50})}

\* The replies given to _parse_response.
Responses ==
    {Field("id", i) @@ Field("rootInfo", r) @@ Field("moveInfos", ms) :
        i \in Opt({"uuid-1"}), r \in Opt(RootInfos),
        ms \in Opt(UNION {[1..n -> RawMoveInfos] : n \in 0..MaxMoveInfos})}

\* The position a reply is decoded for.
SomeState == [moves |-> <<"m1", "m2">>, current_player |-> "B"]

\* The JSON object of a reply line of the engine: its id, its rootInfo and
\* its candidates in the order the engine lists them.
ReplyBody(line) ==
    IF line.id = 1
    THEN [id        |-> line.id,
          rootInfo  |-> [winrate |-> 62, scoreLead |-> 15, visits |-> 50],
          moveInfos |-> <<[move |-> "D4", visits |-> 10, winrate |-> 60],
                          [move |-> "Q16", visits |-> 40, winrate |-> 63]>>]
    ELSE [id        |-> line.id,
          rootInfo  |-> [winrate |-> 48, scoreLead |-> 0 - 5, visits |-> 30],
          moveInfos |-> <<[move |-> "Q16", visits |-> 5, winrate |-> 47],
                          [move |-> "D4", visits |-> 5, winrate |-> 46],
                          [move |-> "C3", visits |-> 20, winrate |-> 49]>>]

\* return self._parse_response(response, state): what the call with the id i
\* gives its caller once it has taken a reply.
AnalysisResult(i) == parse_response(ReplyBody(returned[i]), SomeState)

\* A reply is decoded.
ParseResponse ==
    /\ codec_in = NoCall
    /\ \E response \in Responses :
        /\ codec_in' = [op |-> "parse", response |-> response]
        /\ codec_out' = [op |-> "parse", result |-> parse_response(response, SomeState)]
        /\ UNCHANGED <<pc, qid, nextId, procVars, clientVars, lock, stops,
                       readerVars, histVars, unlocked, absent, startup_error,
                       errVars, stderr_output, pipeVars>>

\* The keys of rules_map; every key is mapped to itself.
rules_map ==
    {<<"c", "h", "i", "n", "e", "s", "e">>,
     <<"j", "a", "p", "a", "n", "e", "s", "e">>,
     <<"k", "o", "r", "e", "a", "n">>,
     <<"a", "g", "a">>,
     <<"n", "z">>,
     <<"t", "r", "o", "m", "p", "-", "t", "a", "y", "l", "o", "r">>,
     <<"s", "t", "o", "n", "e", "-", "s", "c", "o", "r", "i", "n", "g">>}

\* Faulty variant: the rules name is looked up as it is written.
NormalizeAsWritten(text) == text

\* state.rules.lower()
Normalize(text) == [k \in 1..Len(text) |-> Lower(text[k])]

\* rules_map.get(state.rules.lower(), "chinese")
MapRules(text) ==
    IF Normalize(text) \in rules_map THEN Normalize(text) ELSE <<"c", "h", "i", "n", "e", "s", "e">>

\* The move text of a pass.
PassText == <<"p", "a", "s", "s">>

\* Faulty variant: the query asks for the analysis of the empty board.
AnalyzeTurnsStart(moves) == <<0>>

\* "analyzeTurns": [len(moves)]
AnalyzeTurns(moves) == <<Len(moves)>>

\* The for loop of _build_query over state.moves: [color, "pass"] for a move
\* without a coordinate (None, here the empty set), else [color,
\* coord_to_gtp(...)]; an exception of coord_to_gtp ends _build_query.
MoveList(state) ==
    [k \in 1..Len(state.moves) |->
        IF state.moves[k][2] = {} THEN Returns(<<state.moves[k][1], PassText>>)
        ELSE LET coord == CHOOSE c \in state.moves[k][2] : TRUE
                 g == coord_to_gtp(coord[1], coord[2], state.board_size)
             IN IF g.err = "none" THEN Returns(<<state.moves[k][1], g.val>>) ELSE g]

\* _build_query(state, ...): the query object (uuid stands for str(uuid4())).
build_query(state, uuid) ==
    IF \E k \in 1..Len(state.moves) : MoveList(state)[k].err # "none"
    THEN Raises("IndexError")
    ELSE LET moves == [k \in 1..Len(state.moves) |-> MoveList(state)[k].val] IN
         Returns([id            |-> uuid,
                  moves         |-> moves,
                  initialStones |-> << >>,
                  rules         |-> MapRules(state.rules),
                  komi          |-> state.komi,
                  boardXSize    |-> state.board_size,
                  boardYSize    |-> state.board_size,
                  analyzeTurns  |-> AnalyzeTurns(moves)])

\* The rules names a position may carry.
RulesTexts ==
    {<<"c", "h", "i", "n", "e", "s", "e">>,
     <<"C", "h", "i", "n", "e", "s", "e">>,
     <<"J", "A", "P", "A", "N", "E", "S", "E">>,
     <<"k", "o", "r", "e", "a", "n">>,
     <<"A", "G", "A">>,
     <<"N", "z">>,
     <<"T", "r", "o", "m", "p", "-", "T", "a", "y", "l", "o", "r">>,
     <<"s", "t", "o", "n", "e", "-", "s", "c", "o", "r", "i", "n", "g">>,
     <<>>,
     <<"a", "n", "c", "i", "e", "n", "t">>,
     <<"a", "g", "a", " ">>,
     <<"i", "n", "g">>}

\* Board sizes of the positions that are encoded, and some points of each.
BoardSizes == {9, 13, 19}
Points(n) == {<<0, 0>>, <<n - 1, n - 1>>, <<3, n - 4>>}

\* The positions given to _build_query.
Positions ==
    UNION {
      {[board_size |-> n, moves |-> ms, rules |-> r, komi |-> 750] :
          ms \in UNION {[1..len -> {"B", "W"} \X Opt(Points(n))] : len \in 0..MaxMoves},
          r \in RulesTexts} : n \in BoardSizes}

\* A position is encoded.
BuildQuery ==
    /\ codec_in = NoCall
    /\ \E state \in Positions :
        /\ codec_in' = [op |-> "build", state |-> state]
        /\ codec_out' = [op |-> "build", query |-> build_query(state, "uuid-1")]
        /\ UNCHANGED <<pc, qid, nextId, procVars, clientVars, lock, stops,
                       readerVars, histVars, unlocked, absent, startup_error,
                       errVars, stderr_output, pipeVars>>

\* ------------------------------------------------------- read_sgf_file
\* boards.Board.play(row, col, colour) on a board held as a set of stones
\* <<row, col, colour>>: a stone on an occupied point is refused (the reader
\* skips such a move). The points of the files of the model are never
\* adjacent, so no stone is captured.
Play(board, row, col, colour) ==
    IF \E s \in board : s[1] = row /\ s[2] = col THEN board
    ELSE board \cup {<<row, col, colour>>}

\* The board after the moves of the main sequence, passes left out.
RECURSIVE PlayMoves(_, _)
PlayMoves(board, moves) ==
    IF moves = << >> THEN board
    ELSE LET m == Head(moves) IN
         IF m[2] = {} THEN PlayMoves(board, Tail(moves))
         ELSE LET p == CHOOSE c \in m[2] : TRUE IN
              PlayMoves(Play(board, p[1], p[2], m[1]), Tail(moves))

\* read_sgf_file: the setup stones AB and AW are played on the board, then
\* the moves of the main sequence; state.moves holds the moves only, with the
\* row counted from the top (board_size - 1 - sgfmill_row) and the colour in
\* upper case; state.board is the board with its rows flipped likewise.
read_sgf_file(file) ==
    LET n      == file.size
        setup  == {<<p[1], p[2], "b">> : p \in file.AB} \cup
                  {<<p[1], p[2], "w">> : p \in file.AW}
        board  == PlayMoves(setup, file.moves)
        Flip(opt) == {<<n - 1 - p[1], p[2]>> : p \in opt}
        moves  == [k \in 1..Len(file.moves) |->
                      <<Upper(file.moves[k][1]), Flip(file.moves[k][2])>>]
    IN [board_size     |-> n,
        komi           |-> file.komi,
        rules          |-> Normalize(file.rules),
        moves          |-> moves,
        current_player |-> IF moves = << >> THEN "B"
                           ELSE IF moves[Len(moves)][1] = "B" THEN "W" ELSE "B",
        board          |-> {<<n - 1 - s[1], s[2], Upper(s[3])>> : s \in board}]

\* The moves of a file: up to MaxMoves moves or passes of either colour, no
\* two on one point.
FileMoves(points) ==
    {ms \in UNION {[1..len -> {"b", "w"} \X Opt(points)] : len \in 0..MaxMoves} :
        \A j, k \in 1..Len(ms) : (j # k /\ ms[j][2] # {}) => ms[j][2] # ms[k][2]}

\* The files that are read: setup stones of either colour and moves, all on
\* different points.
SgfFiles ==
    UNION {UNION {UNION {
      {[size |-> n, AB |-> ab, AW |-> aw, moves |-> ms,
        rules |-> <<"J", "a", "p", "a", "n", "e", "s", "e">>, komi |-> 650] :
          ms \in FileMoves(Points(n) \ (ab \cup aw))} :
        aw \in SUBSET (Points(n) \ ab)} : ab \in SUBSET Points(n)} : n \in BoardSizes}

\* A file is read and the position is encoded.
ReadSgf ==
    /\ codec_in = NoCall
    /\ \E file \in SgfFiles :
        /\ codec_in' = [op |-> "read", file |-> file]
        /\ codec_out' = [op |-> "read", state |-> read_sgf_file(file),
                         query |-> build_query(read_sgf_file(file), "uuid-1")]
        /\ UNCHANGED <<pc, qid, nextId, procVars, clientVars, lock, stops,
                       readerVars, histVars, unlocked, absent, startup_error,
                       errVars, stderr_output, pipeVars>>

\* ------------------------------------- analyze_position and the Position
\* The position with the fields of `writes` assigned.
Assigned(state, writes) ==
    [f \in DOMAIN state |-> IF f \in DOMAIN writes THEN writes[f] ELSE state[f]]

\* Faulty variant: _build_query appends a pass to the moves of the position.
build_query_writesMoves(state) ==
    "moves" :> Append(state.moves, <<state.current_player, {}>>)

\* The fields of state that _build_query assigns or alters in place: none.
\* `moves` is a list of its own (line 303) and state is only read.
build_query_writes(state) == [f \in {} |-> 0]

\* The fields of state that _parse_response assigns or alters in place:
\* none. It reads len(state.moves) and state.current_player.
parse_response_writes(state) == [f \in {} |-> 0]

\* How the exchange with the engine ends for analyze_position: with a reply
\* (an analysis or an error object), with None from _wait_for_response, or
\* with the RuntimeError of _send_query.
EngineOutcomes == {"reply", "error_reply", "none", "RuntimeError"}

\* An error object of the engine: the id of the query and an error text,
\* neither rootInfo nor moveInfos.
ErrorReply == ("id" :> 1) @@ ("error" :> "Illegal move")

\* analyze_position(state): what it returns or raises, and the position
\* after the call. An exception of _build_query ends the call before the
\* query is sent.
analyze_position(state, outcome) ==
    LET built == Assigned(state, build_query_writes(state)) IN
    IF build_query(state, "uuid-1").err # "none"
    THEN [result |-> build_query(state, "uuid-1"), state |-> built]
    ELSE IF outcome = "RuntimeError"
    THEN [result |-> Raises("RuntimeError"), state |-> built]
    ELSE IF outcome = "none"
    THEN [result |-> Returns("None"), state |-> built]
    ELSE [result |-> parse_response(IF outcome = "error_reply" THEN ErrorReply
                                    ELSE ReplyBody(Reply(1)), built),
          state  |-> Assigned(built, parse_response_writes(built))]

\* A position read from a file is analysed.
AnalyzePosition ==
    /\ codec_in = NoCall
    /\ \E file \in SgfFiles : \E outcome \in EngineOutcomes :
        /\ codec_in' = [op |-> "analyze", state |-> read_sgf_file(file),
                        outcome |-> outcome]
        /\ codec_out' = [op |-> "analyze",
                         call |-> analyze_position(read_sgf_file(file), outcome)]
        /\ UNCHANGED <<pc, qid, nextId, procVars, clientVars, lock, stops,
                       readerVars, histVars, unlocked, absent, startup_error,
                       errVars, stderr_output, pipeVars>>

\* ------------------------------------------------- format_ownership_map
\* The letter of a point by its ownership (in hundredths): own > 0.6 is "B",
\* own > 0.2 "b", own < -0.6 "W", own < -0.2 "w", anything else ".".
OwnershipSymbol(own) ==
    IF own > 60 THEN "B"
    ELSE IF own > 20 THEN "b"
    ELSE IF own < 0 - 60 THEN "W"
    ELSE IF own < 0 - 20 THEN "w"
    ELSE "."

\* Faulty variant: only a missing or an empty array is turned down.
OwnershipUnusableIfEmpty(ownership, board_size) ==
    ownership = {} \/ (\E o \in ownership : Len(o) = 0)

\* `not ownership or len(ownership) != board_size * board_size`, for an
\* array that is None (here the empty set) or a list.
OwnershipUnusable(ownership, board_size) ==
    ownership = {} \/ (\E o \in ownership : Len(o) = 0 \/ Len(o) # board_size * board_size)

NotAvailable == "Ownership data not available"

\* format_ownership_map(ownership, board_size): the text it returns and the
\* indices of the array it reads (idx = row * board_size + col), with
\* IndexError for an index past the end of the array.
format_ownership_map(ownership, board_size) ==
    IF OwnershipUnusable(ownership, board_size)
    THEN [text |-> NotAvailable, rows |-> << >>, reads |-> {}]
    ELSE LET o    == CHOOSE x \in ownership : TRUE
             idxs == {row * board_size + col : row, col \in 0..(board_size - 1)}
         IN IF \E i \in idxs : i >= Len(o)
            THEN [text |-> "IndexError", rows |-> << >>,
                  reads |-> {i \in idxs : i <= Len(o)}]
            ELSE [text  |-> "=== Territory Map ===",
                  rows  |-> [row \in 1..board_size |-> [col \in 1..board_size |->
                               OwnershipSymbol(o[(row - 1) * board_size + col])]],
                  reads |-> idxs]

\* The ownership values of the model, one for each letter of the map.
OwnershipValues == {0 - 70, 0 - 30, 0, 30, 70}

\* The arrays given to format_ownership_map: none, or a list of up to one
\* value more than the largest board has points.
OwnershipArrays ==
    Opt(UNION {[1..len -> OwnershipValues] : len \in 0..(MaxMapSize * MaxMapSize + 1)})

\* An ownership array is formatted.
FormatOwnership ==
    /\ codec_in = NoCall
    /\ \E n \in 1..MaxMapSize : \E ownership \in OwnershipArrays :
        /\ codec_in' = [op |-> "ownership", ownership |-> ownership, board_size |-> n]
        /\ codec_out' = [op |-> "ownership", map |-> format_ownership_map(ownership, n)]
        /\ UNCHANGED <<pc, qid, nextId, procVars, clientVars, lock, stops,
                       readerVars, histVars, unlocked, absent, startup_error,
                       errVars, stderr_output, pipeVars>>

\* ------------------------------------------------- the tools of server.py
Tools == {"get_board_state", "analyze_position", "get_move_recommendation",
          "get_territory_analysis", "evaluate_move", "list_sgf_files"}

\* The tools that read a game file and the ones that call the engine.
ReadsGame(tool)   == tool # "list_sgf_files"
CallsEngine(tool) == tool \notin {"get_board_state", "list_sgf_files"}

\* What a call can meet.
Failures == {"no_file", "unreadable", "unparsable", "vanished",
             "start_failure", "comm_error", "timeout"}

\* The failures a tool can meet: every tool lists the watch directory (the
\* directory may be empty, a file may vanish between glob and getmtime); the
\* tools that read a game open and parse a file; the tools that call the
\* engine start the client and make an analyze call.
CanMeet(tool, failure) ==
    \/ failure \in {"no_file", "vanished"}
    \/ failure \in {"unreadable", "unparsable"} /\ ReadsGame(tool)
    \/ failure \in {"start_failure", "comm_error", "timeout"} /\ CallsEngine(tool)

\* What the failure is inside the tool: an exception that is raised, or
\* "none" for a value the tool tests (an empty glob result in
\* list_sgf_files, the None of analyze_position).
RaisedBy(tool, failure) ==
    CASE failure = "no_file"       -> IF ReadsGame(tool) THEN "FileNotFoundError" ELSE "none"
      [] failure = "unreadable"    -> "PermissionError"
      [] failure = "unparsable"    -> "ValueError"
      [] failure = "vanished"      -> "FileNotFoundError"
      [] failure = "start_failure" -> "RuntimeError"
      [] failure = "comm_error"    -> "RuntimeError"
      [] failure = "timeout"       -> "none"

\* The except clauses around the body of a tool: `except FileNotFoundError`
\* and `except Exception` in the five tools with a try block; list_sgf_files
\* has none.
ExceptClauses(tool) ==
    IF ReadsGame(tool) THEN {"FileNotFoundError", "Exception"} ELSE {}

\* Every exception of the model is a subclass of Exception.
IsCaught(exc, clauses) == exc \in clauses \/ "Exception" \in clauses

\* What the call of a tool that meets the failure gives its caller.
ToolOutcome(tool, failure) ==
    IF RaisedBy(tool, failure) = "none" THEN [kind |-> "text", exc |-> "none"]
    ELSE IF IsCaught(RaisedBy(tool, failure), ExceptClauses(tool))
    THEN [kind |-> "text", exc |-> "none"]
    ELSE [kind |-> "exception", exc |-> RaisedBy(tool, failure)]

\* A tool is called and meets a failure.
CallTool ==
    /\ codec_in = NoCall
    /\ \E tool \in Tools : \E failure \in Failures :
        /\ CanMeet(tool, failure)
        /\ codec_in' = [op |-> "tool", tool |-> tool, failure |-> failure]
        /\ codec_out' = [op |-> "tool", outcome |-> ToolOutcome(tool, failure)]
        /\ UNCHANGED <<pc, qid, nextId, procVars, clientVars, lock, stops,
                       readerVars, histVars, unlocked, absent, startup_error,
                       errVars, stderr_output, pipeVars>>

\* ------------------------------------------------------- caller: analyze
\* How a call that leaves analyze_position is recorded.
EndCall(t, outcome) ==
    /\ status' = [status EXCEPT ![qid[t]] = outcome]
    /\ pc' = [pc EXCEPT ![t] = "idle"]
    /\ qid' = [qid EXCEPT ![t] = 0]

\* start() runs inside _send_query for a thread that is in an analyze call.
InSend(t) == qid[t] # 0

\* Faulty variant: _send_query catches the exception of start() and calls
\* start() again.
StartRaisesRetries(t) ==
    IF InSend(t)
    THEN /\ pc' = [pc EXCEPT ![t] = "start_check"]
         /\ UNCHANGED <<qid, status>>
    ELSE /\ pc' = [pc EXCEPT ![t] = "idle"]
         /\ UNCHANGED <<qid, status>>

\* An exception leaving start(): it ends the analyze call that called
\* start() from _send_query, or the caller's own start() call.
StartRaises(t) ==
    IF InSend(t)
    THEN EndCall(t, "error_start")
    ELSE /\ pc' = [pc EXCEPT ![t] = "idle"]
         /\ UNCHANGED <<qid, status>>

\* analyze_position up to the first liveness test of _send_query:
\* _build_query draws a fresh uuid4 for the query; a dead or absent process
\* means a call of start().
Analyze(t) ==
    /\ pc[t] = "idle"
    /\ nextId < MaxIds
    /\ nextId' = nextId + 1
    /\ qid' = [qid EXCEPT ![t] = nextId + 1]
    /\ status' = [status EXCEPT ![nextId + 1] = "inflight"]
    /\ pc' = [pc EXCEPT ![t] = IF IsAlive THEN "send_alive2" ELSE "start_check"]
    /\ NoAccess
    /\ UNCHANGED <<stops, envVars, procVars, clientVars, lock, readerVars,
                   returned, timedout, late, regWhile>>

\* _send_query, second liveness test: still not alive raises RuntimeError
\* before anything is registered.
SendAlive2(t) ==
    /\ pc[t] = "send_alive2"
    /\ IF IsAlive
       THEN /\ pc' = [pc EXCEPT ![t] = "reg_lock"]
            /\ UNCHANGED <<qid, status>>
       ELSE EndCall(t, "error_start")
    /\ NoAccess
    /\ UNCHANGED <<stops, envVars, nextId, procVars, clientVars, lock, readerVars,
                   returned, timedout, late, regWhile>>

\* ---------------------------------------------------------------- start()
\* Where start() returns to.
StartReturn(t) == IF InSend(t) THEN "send_alive2" ELSE "idle"

\* start() up to Popen: return at once when the process is alive; otherwise
\* check that the executable and the model exist (FileNotFoundError when one
\* is missing).
StartBegin(t) ==
    IF IsAlive
    THEN /\ pc' = [pc EXCEPT ![t] = StartReturn(t)]
         /\ UNCHANGED <<qid, status, startup_error>>
    ELSE IF IsChecked(absent)
    THEN /\ startup_error' = NotFound(absent)
         /\ StartRaises(t)
    ELSE /\ startup_error' = NoError
         /\ pc' = [pc EXCEPT ![t] = "start_popen"]
         /\ UNCHANGED <<qid, status>>

\* start() called by _send_query.
StartCheck(t) ==
    /\ pc[t] = "start_check"
    /\ StartBegin(t)
    /\ NoAccess
    /\ UNCHANGED <<stops, absent, codecVars, errVars, stderr_output, pipeVars, nextId, procVars, clientVars, lock, readerVars,
                   returned, timedout, late, regWhile>>

\* start() called by a caller of the client.
CallStart(t) ==
    /\ pc[t] = "idle"
    /\ StartBegin(t)
    /\ NoAccess
    /\ UNCHANGED <<stops, absent, codecVars, errVars, stderr_output, pipeVars, nextId, procVars, clientVars, lock, readerVars,
                   returned, timedout, late, regWhile>>

\* start(): subprocess.Popen. On success self.process is the new handle; a
\* failure to launch raises RuntimeError.
StartPopen(t) ==
    /\ pc[t] = "start_popen"
    /\ NoAccess
    /\ UNCHANGED <<stops, absent, codecVars, errVars, stderr_output, pipeVars, nextId, stdin,
                   clientVars, lock, readerVars, returned, timedout, late, regWhile>>
    /\ \/ \E p \in Pids :
            /\ procState[p] = "unborn"
            /\ \A q \in Pids : q < p => procState[q] # "unborn"
            /\ procState' = [procState EXCEPT ![p] = "running"]
            /\ process' = p
            /\ launch_cache' = DOMAIN responses
            /\ pc' = [pc EXCEPT ![t] = "start_poll"]
            /\ UNCHANGED <<qid, status, startup_error>>
       \/ /\ startup_error' = PopenFailed
          /\ StartRaises(t)
          /\ UNCHANGED <<process, procState, launch_cache>>

\* The thread slot a new reader runs in: the first one with no live reader.
FreshReader(r) ==
    /\ rpc[r] = "off"
    /\ \A q \in Readers : q < r => rpc[q] # "off"

\* A reader thread whose loop has ended, at end of file ("eof"), without a
\* process handle ("noproc") or on a line of the given kind: its slot is free
\* again.
ReaderExit(r, cause) ==
    /\ exits' = IF cause \in {"eof", "noproc"} THEN exits ELSE exits \cup {cause}
    /\ rpc' = [rpc EXCEPT ![r] = "off"]
    /\ rstream' = [rstream EXCEPT ![r] = 0]
    /\ rline' = [rline EXCEPT ![r] = NoLine]
    /\ rjunk' = [rjunk EXCEPT ![r] = FALSE]

\* start() after the grace period: self.process.poll(). A process that has
\* exited has the rest of its stderr read into the message of the
\* RuntimeError that is raised; a handle released meanwhile by stop() raises
\* AttributeError; otherwise the stdout and the stderr reader threads are
\* started.
StartPoll(t) ==
    /\ pc[t] = "start_poll"
    /\ NoAccess
    /\ UNCHANGED <<stops, absent, codecVars, stderr_lines, stderr_output, pipeVars, nextId,
                   procVars, clientVars, lock, rstream, rline,
                   rjunk, exits, returned, timedout, late, regWhile>>
    /\ IF IsAlive
       THEN \E r \in Readers :
              /\ FreshReader(r)
              /\ rpc' = [rpc EXCEPT ![r] = "loop"]
              /\ estream' = estream \cup {process}
              /\ pc' = [pc EXCEPT ![t] = StartReturn(t)]
              /\ UNCHANGED <<qid, status, startup_error, errpipe>>
       ELSE /\ StartRaises(t)
            /\ rpc' = rpc
            /\ estream' = estream
            /\ IF process = 0
               THEN UNCHANGED <<startup_error, errpipe>>
               ELSE /\ startup_error' = DiedImmediately(errpipe[process])
                    /\ errpipe' = [errpipe EXCEPT ![process] = 0]

\* ------------------------------------------- _send_query: register, write
\* with self._lock: entered to register the Event of the query.
RegLock(t) ==
    /\ pc[t] = "reg_lock"
    /\ lock = Free
    /\ lock' = ByThread(t)
    /\ pc' = [pc EXCEPT ![t] = "reg_store"]
    /\ NoAccess
    /\ UNCHANGED <<qid, stops, envVars, nextId, procVars, clientVars, readerVars, histVars>>

\* Faulty variant: the query is written without its handle having been stored.
RegStoreForgets(t) ==
    /\ pc[t] = "reg_store"
    /\ pending_requests' = pending_requests
    /\ Access("pending_requests", ByThread(t))
    /\ lock' = Free
    /\ regWhile' = [regWhile EXCEPT ![qid[t]] =
                       {qid[u] : u \in {v \in Threads : pc[v] = "waiting"}}]
    /\ pc' = [pc EXCEPT ![t] = "write"]
    /\ UNCHANGED <<qid, stops, envVars, nextId, procVars, events, responses, readerVars,
                   status, returned, timedout, late>>

\* self.pending_requests[request_id] = event, and the lock is left.
RegStore(t) ==
    /\ pc[t] = "reg_store"
    /\ pending_requests' = pending_requests \cup {qid[t]}
    /\ Access("pending_requests", ByThread(t))
    /\ lock' = Free
    /\ regWhile' = [regWhile EXCEPT ![qid[t]] =
                       {qid[u] : u \in {v \in Threads : pc[v] = "waiting"}}]
    /\ pc' = [pc EXCEPT ![t] = "write"]
    /\ UNCHANGED <<qid, stops, envVars, nextId, procVars, events, responses, readerVars,
                   status, returned, timedout, late>>

\* self.process.stdin.write(query_json + "\n") on the line-buffered text
\* stream: the line reaches a running engine; a process that has exited gives
\* BrokenPipeError; a handle released by stop() gives AttributeError, which
\* _send_query does not catch.
\* The write blocks while the pipe of an engine that reads nothing is full.
\* The except clause builds its message from the stderr lines captured so far
\* before it asks for the lock.
Write(t) ==
    /\ pc[t] = "write"
    /\ ~ WriteBlocks
    /\ NoAccess
    /\ UNCHANGED <<stops, absent, codecVars, startup_error, errVars, stalled, nextId,
                   process, procState, launch_cache, clientVars, lock,
                   readerVars, returned, timedout, late, regWhile>>
    /\ IF process = 0
       THEN /\ EndCall(t, "error_attr")
            /\ UNCHANGED <<stdin, unread, stderr_output>>
       ELSE IF procState[process] # "running"
       THEN /\ pc' = [pc EXCEPT ![t] = "werr_lock"]
            /\ stderr_output' = [stderr_output EXCEPT ![qid[t]] = BrokenPipeMessage]
            /\ UNCHANGED <<qid, status, stdin, unread>>
       ELSE IF process \in stalled
       THEN /\ unread' = [unread EXCEPT ![process] = @ + 1]
            /\ pc' = [pc EXCEPT ![t] = "flush"]
            /\ UNCHANGED <<qid, status, stdin, stderr_output>>
       ELSE /\ stdin' = [stdin EXCEPT ![process] = @ \cup {qid[t]}]
            /\ pc' = [pc EXCEPT ![t] = "flush"]
            /\ UNCHANGED <<qid, status, unread, stderr_output>>

\* self.process.stdin.flush(): nothing is left to write, so only a released
\* handle makes it fail.
Flush(t) ==
    /\ pc[t] = "flush"
    /\ NoAccess
    /\ UNCHANGED <<stops, envVars, nextId, procVars, clientVars, lock, readerVars,
                   returned, timedout, late, regWhile>>
    /\ IF process = 0
       THEN EndCall(t, "error_attr")
       ELSE /\ pc' = [pc EXCEPT ![t] = "wait_lookup"]
            /\ UNCHANGED <<qid, status>>

\* except (BrokenPipeError, OSError): with self._lock entered.
WriteErrLock(t) ==
    /\ pc[t] = "werr_lock"
    /\ lock = Free
    /\ lock' = ByThread(t)
    /\ pc' = [pc EXCEPT ![t] = "werr_del"]
    /\ NoAccess
    /\ UNCHANGED <<qid, stops, envVars, nextId, procVars, clientVars, readerVars, histVars>>

\* del self.pending_requests[request_id]; raise RuntimeError.
WriteErrDel(t) ==
    /\ pc[t] = "werr_del"
    /\ pending_requests' = pending_requests \ {qid[t]}
    /\ Access("pending_requests", ByThread(t))
    /\ lock' = Free
    /\ EndCall(t, "error_comm")
    /\ UNCHANGED <<stops, envVars, nextId, procVars, events, responses, readerVars,
                   returned, timedout, late, regWhile>>

\* -------------------------------------------------------- _wait_for_response
\* Faulty variant: the waiter takes the lock for the lookup and keeps it while it
\* waits.
WaitLookupHoldingLock(t) ==
    /\ pc[t] = "wait_lookup"
    /\ lock = Free
    /\ lock' = ByThread(t)
    /\ unlocked' = unlocked
    /\ UNCHANGED <<stops, envVars, nextId, procVars, clientVars, readerVars,
                   returned, timedout, late, regWhile>>
    /\ IF qid[t] \in pending_requests
       THEN /\ pc' = [pc EXCEPT ![t] = "waiting"]
            /\ UNCHANGED <<qid, status>>
       ELSE EndCall(t, "noresult")

\* event = self.pending_requests.get(request_id): read outside the lock.
WaitLookup(t) ==
    /\ pc[t] = "wait_lookup"
    /\ Access("pending_requests", ByThread(t))
    /\ UNCHANGED <<stops, envVars, nextId, procVars, clientVars, lock, readerVars,
                   returned, timedout, late, regWhile>>
    /\ IF qid[t] \in pending_requests
       THEN /\ pc' = [pc EXCEPT ![t] = "waiting"]
            /\ UNCHANGED <<qid, status>>
       ELSE EndCall(t, "noresult")

\* Faulty variant: the wait bound elapsing raises instead of returning None.
WaitTimeoutRaises == "error_timeout"

\* What analyze_position returns when event.wait ran into the wait bound.
WaitTimeoutOutcome == "noresult"

\* Faulty variant: the wait gives up whether or not the handle has been set.
WaitTimeoutIgnoresEvent(t) ==
    /\ pc[t] = "waiting"
    /\ timedout' = timedout \cup {qid[t]}
    /\ EndCall(t, WaitTimeoutOutcome)
    /\ stderr_output' = [stderr_output EXCEPT ![qid[t]] = TimeoutDiagnostics]
    /\ NoAccess
    /\ UNCHANGED <<stops, absent, codecVars, startup_error, errVars, pipeVars, nextId,
                   procVars, clientVars, lock, readerVars, returned, late, regWhile>>

\* event.wait(timeout) returns False: the bound elapsed with the Event unset.
\* _wait_for_response returns None and so does analyze_position.
\* The stderr lines of stderr_tail are printed to the log when debug is set
\* and are no part of what analyze_position returns.
WaitTimeout(t) ==
    /\ pc[t] = "waiting"
    /\ qid[t] \notin events
    /\ timedout' = timedout \cup {qid[t]}
    /\ EndCall(t, WaitTimeoutOutcome)
    /\ stderr_output' = [stderr_output EXCEPT ![qid[t]] = TimeoutDiagnostics]
    /\ NoAccess
    /\ UNCHANGED <<stops, absent, codecVars, startup_error, errVars, pipeVars, nextId,
                   procVars, clientVars, lock, readerVars, returned, late, regWhile>>

\* event.wait(timeout) returns True and the waiter enters with self._lock.
WaitSignalled(t) ==
    /\ pc[t] = "waiting"
    /\ qid[t] \in events
    /\ lock = Free
    /\ lock' = ByThread(t)
    /\ pc' = [pc EXCEPT ![t] = "pop"]
    /\ NoAccess
    /\ UNCHANGED <<qid, stops, envVars, nextId, procVars, clientVars, readerVars, histVars>>

\* Faulty variant: the waiter takes whichever reply is in the cache (arrival order)
\* instead of the one stored under its own id.
PopKeyAnyReply(t) ==
    IF DOMAIN responses = {} THEN qid[t] ELSE CHOOSE k \in DOMAIN responses : TRUE

\* The key the waiter takes its reply from.
PopKey(t) == qid[t]

\* Faulty variant: the waiter reads its reply and leaves it in the cache
\* (get instead of pop).
WaitPopKeepsReply(t) ==
    /\ pc[t] = "pop"
    /\ Access("responses", ByThread(t))
    /\ lock' = Free
    /\ responses' = responses
    /\ IF PopKey(t) \in DOMAIN responses
       THEN /\ returned' = Put(returned, qid[t], responses[PopKey(t)])
            /\ EndCall(t, "result")
       ELSE /\ returned' = returned
            /\ EndCall(t, "noresult")
    /\ UNCHANGED <<stops, envVars, nextId, procVars, pending_requests, events, readerVars,
                   timedout, late, regWhile>>

\* response = self.responses.pop(request_id, None) under the lock; then
\* analyze_position returns None for None and the decoded reply otherwise.
WaitPop(t) ==
    /\ pc[t] = "pop"
    /\ Access("responses", ByThread(t))
    /\ lock' = Free
    /\ responses' = Del(responses, PopKey(t))
    /\ IF PopKey(t) \in DOMAIN responses
       THEN /\ returned' = Put(returned, qid[t], responses[PopKey(t)])
            /\ EndCall(t, "result")
       ELSE /\ returned' = returned
            /\ EndCall(t, "noresult")
    /\ UNCHANGED <<stops, envVars, nextId, procVars, pending_requests, events, readerVars,
                   timedout, late, regWhile>>

\* ----------------------------------------------------------------- stop()
\* stop(): without a handle there is nothing to do but return; otherwise
\* self.process.terminate().
StopTerminate(t) ==
    /\ pc[t] = "idle"
    /\ NoAccess
    /\ UNCHANGED <<qid, absent, codecVars, startup_error, errpipe, stderr_lines, stderr_output,
                   nextId, process, launch_cache, stdin, clientVars, lock,
                   readerVars, histVars>>
    /\ IF process = 0
       THEN /\ pc' = [pc EXCEPT ![t] = "stop_none"]
            /\ UNCHANGED <<stops, procState, estream, pipeVars>>
       ELSE /\ stops < MaxStops
            /\ stops' = stops + 1
            /\ procState' = [procState EXCEPT ![process] = "exited"]
            /\ estream' = AfterExit(process)
            /\ stalled' = stalled \ {process}
            /\ unread' = [unread EXCEPT ![process] = 0]
            /\ pc' = [pc EXCEPT ![t] = "stop_wait"]

\* stop() returns from the call that found no handle.
StopNone(t) ==
    /\ pc[t] = "stop_none"
    /\ pc' = [pc EXCEPT ![t] = "idle"]
    /\ NoAccess
    /\ UNCHANGED <<qid, stops, envVars, nextId, procVars, clientVars, lock,
                   readerVars, histVars>>

\* Faulty variant: stop() waits for the process and keeps its handle.
StopWaitKeepsHandle(t) ==
    /\ pc[t] = "stop_wait"
    /\ process # 0 => procState[process] = "exited"
    /\ process' = process
    /\ launch_cache' = launch_cache
    /\ pc' = [pc EXCEPT ![t] = "idle"]
    /\ NoAccess
    /\ UNCHANGED <<qid, stops, envVars, nextId, procState, stdin, clientVars, lock,
                   readerVars, histVars>>

\* stop(): self.process.wait() on the handle that is current now, then
\* self.process = None. A handle released meanwhile gives AttributeError.
StopWait(t) ==
    /\ pc[t] = "stop_wait"
    /\ process # 0 => procState[process] = "exited"
    /\ process' = 0
    /\ launch_cache' = launch_cache
    /\ pc' = [pc EXCEPT ![t] = "idle"]
    /\ NoAccess
    /\ UNCHANGED <<qid, stops, envVars, nextId, procState, stdin, clientVars, lock,
                   readerVars, histVars>>

\* ------------------------------------------------------ the engine process
\* Faulty variant: a process that exits is replaced at once by a new one.
CrashRespawns(p) ==
    /\ procState[p] = "running"
    /\ IF \E q \in Pids : procState[q] = "unborn"
       THEN LET q == CHOOSE x \in Pids : procState[x] = "unborn" IN
            /\ procState' = [procState EXCEPT ![p] = "exited", ![q] = "running"]
            /\ process' = q
            /\ launch_cache' = DOMAIN responses
       ELSE /\ procState' = [procState EXCEPT ![p] = "exited"]
            /\ process' = process
            /\ launch_cache' = launch_cache
    /\ estream' = AfterExit(p)
    /\ stalled' = stalled \ {p}
    /\ unread' = [unread EXCEPT ![p] = 0]
    /\ NoAccess
    /\ UNCHANGED <<pc, qid, stops, absent, codecVars, startup_error, errpipe, stderr_lines,
                   stderr_output, nextId, stdin, clientVars, lock,
                   readerVars, histVars>>

\* The engine process exits on its own (crash) at any time.
Crash(p) ==
    /\ procState[p] = "running"
    /\ procState' = [procState EXCEPT ![p] = "exited"]
    /\ estream' = AfterExit(p)
    /\ stalled' = stalled \ {p}
    /\ unread' = [unread EXCEPT ![p] = 0]
    /\ NoAccess
    /\ UNCHANGED <<pc, qid, stops, absent, codecVars, startup_error, errpipe, stderr_lines,
                   stderr_output, nextId, process, launch_cache, stdin, clientVars, lock,
                   readerVars, histVars>>

\* The engine stops reading its stdin (it hangs): from now on the query lines
\* written to it stay in the pipe.
Stall(p) ==
    /\ procState[p] = "running"
    /\ p \notin stalled
    /\ stalled' = stalled \cup {p}
    /\ NoAccess
    /\ UNCHANGED <<pc, qid, stops, absent, codecVars, startup_error, errVars, stderr_output,
                   unread, nextId, procVars, clientVars, lock, readerVars, histVars>>

\* A file the configuration names is removed or put back.
FileChange(m) ==
    /\ absent # m
    /\ absent' = m
    /\ NoAccess
    /\ UNCHANGED <<pc, qid, stops, startup_error, errVars, stderr_output, pipeVars,
                   codecVars, nextId, procVars, clientVars, lock, readerVars, histVars>>

\* Lines printed on stderr by all processes and not read yet.
RECURSIVE ErrPending(_)
ErrPending(n) == IF n = 0 THEN 0 ELSE errpipe[n] + ErrPending(n - 1)

\* The engine prints a line on its stderr, one of at most n in a run.
EngineStderrWithin(p, n) ==
    /\ procState[p] = "running"
    /\ stderr_lines + ErrPending(MaxProcs) < n
    /\ errpipe' = [errpipe EXCEPT ![p] = @ + 1]
    /\ NoAccess
    /\ UNCHANGED <<pc, qid, stops, absent, codecVars, startup_error, estream, stderr_lines,
                   stderr_output, pipeVars, nextId, procVars, clientVars, lock,
                   readerVars, histVars>>

EngineStderr(p) == EngineStderrWithin(p, MaxErrLines)

\* --------------------------------------------------- _read_stderr (reader)
\* Where a stderr reader blocked on the stderr of p goes next: the loop
\* condition is evaluated on the handle that is current then.
NextStream(p) == IF process = 0 THEN estream \ {p} ELSE (estream \ {p}) \cup {process}

\* readline on the stderr of p returns: a line, which is appended to
\* self._stderr_lines, or "" at end of file, which ends the reader.
ReadStderr(p) ==
    /\ p \in estream
    /\ NoAccess
    /\ UNCHANGED <<pc, qid, stops, absent, codecVars, startup_error, stderr_output, pipeVars,
                   nextId, procVars, clientVars, lock, readerVars, histVars>>
    /\ IF errpipe[p] > 0
       THEN /\ errpipe' = [errpipe EXCEPT ![p] = @ - 1]
            /\ stderr_lines' = stderr_lines + 1
            /\ estream' = NextStream(p)
       ELSE /\ procState[p] = "exited"
            /\ estream' = estream \ {p}
            /\ UNCHANGED <<errpipe, stderr_lines>>

\* What the stdout pipe of process p may hold: any junk line, or a reply to
\* a query the engine has received (in any order, any number of times).
EngineLines(p) == {Junk(k) : k \in JunkKinds} \cup {Reply(i) : i \in stdin[p]}

\* ------------------------------------------------- _read_responses (reader)
\* while self.process and self.process.stdout: the left operand. The loop
\* ends without a handle; with one, the right operand is evaluated next.
ReaderLoop(r) ==
    /\ rpc[r] = "loop"
    /\ NoAccess
    /\ UNCHANGED <<pc, qid, stops, envVars, nextId, procVars, clientVars, lock, histVars>>
    /\ IF process = 0
       THEN ReaderExit(r, "noproc")
       ELSE /\ rpc' = [rpc EXCEPT ![r] = "loop_stdout"]
            /\ UNCHANGED <<rstream, rline, rjunk, exits>>

\* ... and self.process.stdout: the right operand reads self.process again,
\* outside the try block. A handle released by stop() since the left operand
\* gives AttributeError on None, which nothing catches ("unhandled"): the
\* thread ends with a traceback. Otherwise the reader calls readline on the
\* stdout of the handle that is current.
ReaderLoopStdout(r) ==
    /\ rpc[r] = "loop_stdout"
    /\ NoAccess
    /\ UNCHANGED <<pc, qid, stops, envVars, nextId, procVars, clientVars, lock, histVars>>
    /\ IF process = 0
       THEN ReaderExit(r, "unhandled")
       ELSE /\ rpc' = [rpc EXCEPT ![r] = "readline"]
            /\ rstream' = [rstream EXCEPT ![r] = process]
            /\ UNCHANGED <<rline, rjunk, exits>>

\* Faulty variant: a line json.loads rejects ends the reader loop.
AfterLineDecodeErrorFatal(kind) ==
    CASE kind = "blank"     -> "loop"
      [] kind = "garbage"   -> "off"
      [] kind = "nonobject" -> "off"
      [] kind = "noid"      -> "loop"
      [] kind = "badid"     -> "lock"
      [] kind = "reply"     -> "lock"

\* Faulty variant: an object without an id is stored like a reply.
AfterLineStoresNoId(kind) ==
    CASE kind = "blank"     -> "loop"
      [] kind = "garbage"   -> "loop"
      [] kind = "nonobject" -> "off"
      [] kind = "noid"      -> "lock"
      [] kind = "badid"     -> "lock"
      [] kind = "reply"     -> "lock"

\* Where the reader goes after a line, by what the line is: a blank line and
\* a line json.loads rejects are skipped; response.get on a JSON value that is
\* no object raises AttributeError, which ends the loop; an object with no
\* (or a falsy) id is skipped; every other object goes to the locked store.
AfterLine(kind) ==
    CASE kind = "blank"     -> "loop"
      [] kind = "garbage"   -> "loop"
      [] kind = "nonobject" -> "off"
      [] kind = "noid"      -> "loop"
      [] kind = "badid"     -> "lock"
      [] kind = "reply"     -> "lock"

\* Faulty variant: a reader that meets end of file sets the Event of every
\* pending request.
EofSignalsPending == pending_requests

\* The Events a reader sets when readline returns "": none, `if not line:
\* break` leaves the loop and the thread function returns.
EofSignals == {}

\* readline returns: a line the engine has printed, or "" at end of file
\* once the process has exited and the pipe is drained.
ReaderReadline(r) ==
    /\ rpc[r] = "readline"
    /\ NoAccess
    /\ UNCHANGED <<pc, qid, stops, envVars, nextId, procVars, pending_requests,
                   responses, lock, histVars>>
    /\ \/ /\ events' = events
          /\ \E line \in EngineLines(rstream[r]) :
            IF AfterLine(line.kind) = "off"
            THEN ReaderExit(r, line.kind)
            ELSE /\ rjunk' = [rjunk EXCEPT ![r] = (line.kind = "garbage" \/
                                                  (rjunk[r] /\ AfterLine(line.kind) = "lock"))]
                 /\ rpc' = [rpc EXCEPT ![r] = AfterLine(line.kind)]
                 /\ rline' = [rline EXCEPT ![r] =
                                 IF AfterLine(line.kind) = "lock" THEN line ELSE NoLine]
                 /\ UNCHANGED <<rstream, exits>>
       \/ /\ procState[rstream[r]] = "exited"
          /\ events' = events \cup EofSignals
          /\ ReaderExit(r, "eof")

\* readline returns an object whose id is the id of no request of this
\* client: request_id is truthy and the reader goes on to the locked store.
ReaderReadlineForeign(r) ==
    /\ rpc[r] = "readline"
    /\ procState[rstream[r]] = "running"
    /\ rpc' = [rpc EXCEPT ![r] = "lock"]
    /\ rline' = [rline EXCEPT ![r] = Reply(0)]
    /\ NoAccess
    /\ UNCHANGED <<pc, qid, stops, envVars, nextId, procVars, clientVars, lock,
                   rstream, rjunk, exits, histVars>>

\* with self._lock: entered by the reader.
ReaderLock(r) ==
    /\ rpc[r] = "lock"
    /\ lock = Free
    /\ lock' = ByReader(r)
    /\ rpc' = [rpc EXCEPT ![r] = "store"]
    /\ NoAccess
    /\ UNCHANGED <<pc, qid, stops, envVars, nextId, procVars, clientVars, rstream, rline,
                   rjunk, exits, histVars>>

\* Faulty variant: the reader hands a reply to a waiter that is still unanswered,
\* whatever the id of the reply.
StoreKeyFirstWaiter(line) ==
    IF pending_requests \ events = {} THEN line.id
    ELSE CHOOSE k \in pending_requests \ events : TRUE

\* The key the reader stores a reply under: request_id = response.get("id").
StoreKey(line) == line.id

\* Faulty variant: the reader sets the Event and leaves the cache as it is.
ReaderStoreSignalsOnly(r) ==
    /\ rpc[r] = "store"
    /\ Access("responses", ByReader(r))
    /\ lock' = Free
    /\ UNCHANGED <<pc, qid, stops, envVars, nextId, procVars, pending_requests,
                   status, returned, timedout, regWhile>>
    /\ IF rline[r].kind = "badid"
       THEN /\ ReaderExit(r, "badid")
            /\ UNCHANGED <<responses, events, late>>
       ELSE LET key == StoreKey(rline[r]) IN
            /\ responses' = responses
            /\ events' = IF key \in pending_requests THEN events \cup {key} ELSE events
            /\ late' = IF key \in timedout THEN late \cup {key} ELSE late
            /\ rpc' = [rpc EXCEPT ![r] = "loop"]
            /\ rline' = [rline EXCEPT ![r] = NoLine]
            /\ rjunk' = [rjunk EXCEPT ![r] = FALSE]
            /\ UNCHANGED <<rstream, exits>>

\* self.responses[request_id] = response, and the Event of that id is set
\* when the id is pending. An unhashable id raises TypeError at the store,
\* which ends the loop. The lock is left either way.
ReaderStore(r) ==
    /\ rpc[r] = "store"
    /\ Access("responses", ByReader(r))
    /\ lock' = Free
    /\ UNCHANGED <<pc, qid, stops, envVars, nextId, procVars, pending_requests,
                   status, returned, timedout, regWhile>>
    /\ IF rline[r].kind = "badid"
       THEN /\ ReaderExit(r, "badid")
            /\ UNCHANGED <<responses, events, late>>
       ELSE LET key == StoreKey(rline[r]) IN
            /\ responses' = Put(responses, key, rline[r])
            /\ events' = IF key \in pending_requests THEN events \cup {key} ELSE events
            /\ late' = IF key \in timedout THEN late \cup {key} ELSE late
            /\ rpc' = [rpc EXCEPT ![r] = "loop"]
            /\ rline' = [rline EXCEPT ![r] = NoLine]
            /\ rjunk' = [rjunk EXCEPT ![r] = FALSE]
            /\ UNCHANGED <<rstream, exits>>

\* ------------------------------------------------------------ specification
Next ==
    \/ \E t \in Threads :
         \/ Analyze(t)
         \/ SendAlive2(t)
         \/ CallStart(t)
         \/ StartCheck(t)
         \/ StartPopen(t)
         \/ StartPoll(t)
         \/ RegLock(t)
         \/ RegStore(t)
         \/ Write(t)
         \/ Flush(t)
         \/ WriteErrLock(t)
         \/ WriteErrDel(t)
         \/ WaitLookup(t)
         \/ WaitTimeout(t)
         \/ WaitSignalled(t)
         \/ WaitPop(t)
         \/ StopTerminate(t)
         \/ StopNone(t)
         \/ StopWait(t)
    \/ \E p \in Pids : Crash(p)
    \/ \E r \in Readers :
         \/ ReaderLoop(r)
         \/ ReaderLoopStdout(r)
         \/ ReaderReadline(r)
         \/ ReaderLock(r)
         \/ ReaderStore(r)

Spec == Init /\ [][Next]_vars

\* The client used by one caller at a time, with an engine that may exit at
\* any time.
OneCaller == {1}

NextOne ==
    \/ \E t \in OneCaller :
         \/ Analyze(t)
         \/ SendAlive2(t)
         \/ CallStart(t)
         \/ StartCheck(t)
         \/ StartPopen(t)
         \/ StartPoll(t)
         \/ RegLock(t)
         \/ RegStore(t)
         \/ Write(t)
         \/ Flush(t)
         \/ WriteErrLock(t)
         \/ WriteErrDel(t)
         \/ WaitLookup(t)
         \/ WaitTimeout(t)
         \/ WaitSignalled(t)
         \/ WaitPop(t)
         \/ StopTerminate(t)
         \/ StopNone(t)
         \/ StopWait(t)
    \/ \E p \in Pids : Crash(p)
    \/ \E r \in Readers :
         \/ ReaderLoop(r)
         \/ ReaderLoopStdout(r)
         \/ ReaderReadline(r)
         \/ ReaderLock(r)
         \/ ReaderStore(r)

\* ... where the files the configuration names come and go.
NextFiles ==
    \/ NextOne
    \/ \E m \in ConfigPaths \cup {"none"} : FileChange(m)

SpecFiles == Init /\ [][NextFiles]_vars

\* ... where the engine prints on stderr and the stderr readers run.
NextDiag ==
    \/ NextOne
    \/ \E p \in Pids :
         \/ EngineStderr(p)
         \/ ReadStderr(p)

SpecDiag == Init /\ [][NextDiag]_vars

\* A caller that only starts the client, and engines that print many lines
\* on stderr: what becomes of self._stderr_lines.
NextHistory ==
    \/ \E t \in OneCaller :
         \/ CallStart(t)
         \/ StartPopen(t)
         \/ StartPoll(t)
    \/ \E p \in Pids :
         \/ Crash(p)
         \/ EngineStderrWithin(p, MaxHistLines)
         \/ ReadStderr(p)

SpecHistory == Init /\ [][NextHistory]_vars

\* The conversion functions and the tools, called once with arguments of
\* every kind.
NextCodec ==
    \/ ConvertPoint
    \/ ParseResponse
    \/ BuildQuery
    \/ ReadSgf
    \/ FormatOwnership
    \/ AnalyzePosition
    \/ CallTool

SpecCodec == Init /\ [][NextCodec]_vars

\* ... where the engine may stop reading its stdin.
NextStall ==
    \/ NextOne
    \/ \E p \in Pids : Stall(p)

SpecStall == Init /\ [][NextStall]_vars

\* ... where the engine also prints objects with an id of no request.
NextForeign ==
    \/ NextOne
    \/ \E r \in Readers : ReaderReadlineForeign(r)

SpecForeign == Init /\ [][NextForeign]_vars

\* A step of a caller's thread inside a call it has begun: the interpreter
\* goes on running a thread that can run.
CallerStep(t) ==
    \/ SendAlive2(t)
    \/ StartCheck(t)
    \/ StartPopen(t)
    \/ StartPoll(t)
    \/ RegLock(t)
    \/ RegStore(t)
    \/ Write(t)
    \/ Flush(t)
    \/ WriteErrLock(t)
    \/ WriteErrDel(t)
    \/ WaitLookup(t)
    \/ WaitTimeout(t)
    \/ WaitSignalled(t)
    \/ WaitPop(t)
    \/ StopNone(t)
    \/ StopWait(t)

\* A step of a reader thread.
ReaderStep(r) ==
    \/ ReaderLoop(r)
    \/ ReaderLoopStdout(r)
    \/ ReaderReadline(r)
    \/ ReaderLock(r)
    \/ ReaderStore(r)

\* Scheduling: a thread that can take its next step again and again takes it
\* (a thread that waits for the lock gets it, time passes for event.wait).
\* Nothing obliges a caller to begin a call, the engine to exit or to hang.
Fairness ==
    /\ \A t \in OneCaller : SF_vars(CallerStep(t))
    /\ \A r \in Readers : SF_vars(ReaderStep(r))

\* One caller and an engine that may stop reading, under that scheduling.
LiveStall == SpecStall /\ Fairness

\* One caller and an engine that reads what it is sent, under that scheduling.
SpecOne == Init /\ [][NextOne]_vars
LiveOne == SpecOne /\ Fairness

\* ============================================================== properties
Ended(i) == status[i] \notin {"unused", "inflight"}
Waiting(t) == pc[t] = "waiting"

\* C1: every analyze call that returns a result returns the reply whose id
\* is the id of the query that call sent, never a reply addressed to
\* another call.
C1_OwnReply ==
    \A i \in Ids : status[i] = "result" =>
        (i \in DOMAIN returned /\ returned[i].id = i)

\* C1 witness: a call registered while an earlier call was waiting has
\* returned its result, and the earlier call is still waiting unanswered:
\* the engine's replies came in another order than the queries.
C1_Witness ==
    \E a \in Threads, i \in Ids :
        /\ Waiting(a) /\ qid[a] \notin events
        /\ qid[a] \in regWhile[i]
        /\ status[i] = "result" /\ returned[i].id = i

\* C2: a call whose wait ran into the wait bound returns the no-result
\* outcome (None): it neither raises nor returns a reply.
C2_TimeoutNoResult ==
    \A i \in timedout : status[i] = "noresult" /\ i \notin DOMAIN returned

\* C2 witness: a call has timed out.
C2_Witness == \E i \in timedout : Ended(i)

\* The reader r completes the store of a reply whose request has timed out.
StoresLateReply(r) ==
    /\ rpc[r] = "store" /\ rpc'[r] # "store"
    /\ rline[r].kind = "reply"
    /\ rline[r].id \in timedout

\* Everything of the ids other than i is as before: handles, cached replies.
OthersUntouched(i) ==
    \A j \in Ids \ {i} :
        /\ (j \in events') <=> (j \in events)
        /\ (j \in pending_requests') <=> (j \in pending_requests)
        /\ (j \in DOMAIN responses') <=> (j \in DOMAIN responses)
        /\ j \in DOMAIN responses => responses'[j] = responses[j]

\* C3: a reply stored after its request has timed out changes no other
\* call (no other handle, no other cached reply, no call's position or
\* outcome), and no call ever returns a reply that arrived late.
C3_LateReplyHarmless ==
    /\ [](\A i \in DOMAIN returned : returned[i].id \notin late)
    /\ [][\A r \in Readers : StoresLateReply(r) =>
            /\ OthersUntouched(rline[r].id)
            /\ pc' = pc /\ status' = status /\ returned' = returned]_vars

\* C3 witness: a late reply sits in the cache and a call issued after the
\* timed-out one has returned its own reply.
C3_Witness ==
    \E i \in late, j \in Ids :
        /\ i \in DOMAIN responses
        /\ j > i /\ status[j] = "result" /\ returned[j].id = j

\* The reader r completes the store of a reply read right after a line that
\* is not JSON.
StoresAfterGarbage(r) ==
    /\ rpc[r] = "store" /\ rpc'[r] # "store"
    /\ rline[r].kind = "reply"
    /\ rjunk[r]

\* C4: a line that is not valid JSON does not end the reader; the valid
\* reply that follows it is stored under its id, its pending handle is
\* signalled, and the waiter that consumes it returns that reply.
C4_MalformedLineResilience ==
    /\ []("garbage" \notin exits)
    /\ [][\A r \in Readers : StoresAfterGarbage(r) =>
            LET i == rline[r].id IN
            /\ i \in DOMAIN responses' /\ responses'[i] = rline[r]
            /\ i \in pending_requests => i \in events']_vars
    /\ [][\A t \in Threads :
            (pc[t] = "pop" /\ pc'[t] # "pop" /\ qid[t] \in DOMAIN responses) =>
                /\ status'[qid[t]] = "result"
                /\ returned'[qid[t]] = responses[qid[t]]]_vars

\* C4 witness: the reader has skipped a non-JSON line, holds the valid reply
\* that followed it, and the call with that id is waiting for it.
C4_Witness ==
    \E r \in Readers, t \in Threads :
        /\ rpc[r] = "store" /\ rjunk[r] /\ rline[r].kind = "reply"
        /\ Waiting(t) /\ qid[t] = rline[r].id
        /\ qid[t] \in pending_requests \ events

\* C5: no line, whatever its content, ends the stdout reader: its loop ends
\* only at end of file or without a process handle.
C5_ReaderSurvivesEveryLine == exits = {}

\* C6: once an analyze call has ended, the pending-request table holds no
\* entry for its id.
C6_NoPendingEntryAfterCall ==
    \A i \in Ids : Ended(i) => i \notin pending_requests

\* C7: at most one caller at a time is between the start of the write of its
\* query line and the end of the flush.
C7_SingleWriter == Cardinality({t \in Threads : pc[t] = "flush"}) <= 1

\* C8: every read and write of the pending-request table and of the reply
\* cache happens with the client lock held.
C8_AllAccessUnderLock == unlocked = {}

\* C9: no caller holds the client lock while it is blocked waiting for its
\* reply.
C9_WaitOutsideLock == \A t \in Threads : Waiting(t) => lock # ByThread(t)

\* C9 witness: while one caller is waiting, another call has registered,
\* written its query, had its reply delivered and returned.
C9_Witness ==
    \E a \in Threads, i \in Ids :
        /\ Waiting(a)
        /\ qid[a] \in regWhile[i]
        /\ status[i] = "result"

\* C10: at every moment at most one engine process launched by the client is
\* running.
C10_OneProcess == Cardinality({p \in Pids : procState[p] = "running"}) <= 1

\* A thread leaves _send_query through the broken-pipe handler.
RaisesBrokenPipe(t) == pc[t] = "werr_del" /\ pc'[t] # "werr_del"

\* C11: a write that meets a broken pipe makes analyze remove the pending
\* handle it registered for that query and fail with a communication error
\* whose message carries the last stderr lines captured; the call does not
\* wait and does not return no-result.
C11_BrokenPipeFailsWithDiagnostics ==
    /\ [](\A i \in Ids : status[i] = "error_comm" =>
              /\ i \notin pending_requests
              /\ i \notin timedout
              /\ i \notin DOMAIN returned)
    /\ [][\A t \in Threads :
            (pc[t] = "write" /\ pc'[t] # "write"
               /\ process # 0 /\ procState[process] = "exited") =>
                /\ pc'[t] = "werr_lock"
                /\ stderr_output'[qid[t]] = LastLines(stderr_lines, SendTail)]_vars
    /\ [][\A t \in Threads :
            pc[t] = "werr_lock" => pc'[t] \in {"werr_lock", "werr_del"}]_vars
    /\ [][\A t \in Threads : RaisesBrokenPipe(t) =>
            /\ pc'[t] = "idle"
            /\ status'[qid[t]] = "error_comm"
            /\ qid[t] \in pending_requests /\ qid[t] \notin pending_requests'
            /\ stderr_output'[qid[t]] = stderr_output[qid[t]]]_vars

\* C11 witness: a call has failed with the communication error, its message
\* quotes stderr lines that had been captured, and its handle is gone.
C11_Witness ==
    \E i \in Ids :
        /\ status[i] = "error_comm"
        /\ stderr_output[i] # {}
        /\ i \notin pending_requests

\* The positions of a thread inside start().
InStart(t) == pc[t] \in {"start_check", "start_popen", "start_poll"}

\* Where start() called by _send_query goes from each of its positions when it
\* does not raise.
StartGoesOn(t) ==
    \/ pc[t] = "start_check" /\ pc'[t] \in {"start_popen", "send_alive2"}
    \/ pc[t] = "start_popen" /\ pc'[t] = "start_poll"
    \/ pc[t] = "start_poll" /\ pc'[t] = "send_alive2"

EntersAnalyze(t) == qid[t] = 0 /\ qid'[t] # 0

\* C13: after a communication error or a crash the process stays dead until
\* somebody calls start(): a process is launched only by a thread inside
\* start(). The next analyze call finds the process not alive and calls
\* start(), which goes on to launch a new process, and a reply of the new
\* process to that call is the result the call returns.
C13_NextCallRestarts ==
    /\ [](\A i \in Ids : status[i] = "result" =>
              /\ returned[i] = Reply(i)
              /\ \E p \in Pids : i \in stdin[p] /\ procState[p] # "unborn")
    /\ [][\A p \in Pids :
            (procState[p] = "unborn" /\ procState'[p] # "unborn") =>
                /\ procState'[p] = "running" /\ process' = p
                /\ \E t \in Threads : pc[t] = "start_popen" /\ pc'[t] = "start_poll"]_vars
    /\ [][\A t \in Threads : EntersAnalyze(t) =>
            IF IsAlive THEN pc'[t] = "send_alive2" ELSE pc'[t] = "start_check"]_vars
    /\ [][\A t \in Threads :
            (pc[t] = "start_check" /\ pc'[t] # "start_check" /\ ~IsAlive) =>
                pc'[t] = "start_popen"]_vars

\* C13 witness: the first process has exited, a call has failed with the
\* communication error, and a later call has returned the reply the second
\* process gave to its query.
C13_Witness ==
    /\ procState[1] = "exited"
    /\ \E i, j \in Ids :
          /\ j < i
          /\ status[j] = "error_comm"
          /\ status[i] = "result" /\ returned[i] = Reply(i)
          /\ i \in stdin[2]

\* A reader thread ends in this step.
ReaderEnds(r) == rpc[r] # "off" /\ rpc'[r] = "off"

\* C14: a reader that ends sets no Event, ends no call and raises nothing
\* into a caller; a call that ends with no result has run into its own wait
\* bound, and a waiting call leaves its wait only by that bound or by its
\* Event having been set by a reader that stored a reply.
C14_ReadersEndSilently ==
    /\ [](\A i \in Ids : status[i] = "noresult" => i \in timedout)
    /\ [](\A i \in events : i \in DOMAIN responses \/ Ended(i)
                               \/ \E t \in Threads : qid[t] = i /\ pc[t] = "pop")
    /\ [][\A r \in Readers : ReaderEnds(r) =>
            /\ events' = events /\ pending_requests' = pending_requests
            /\ pc' = pc /\ status' = status /\ returned' = returned]_vars
    /\ [][\A t \in Threads : (Waiting(t) /\ ~Waiting(t)') =>
            \/ qid[t] \in events /\ pc'[t] = "pop" /\ status' = status
            \/ /\ qid[t] \notin events /\ pc'[t] = "idle"
               /\ status'[qid[t]] = "noresult" /\ qid[t] \in timedout']_vars

\* C14 witness: the process has exited with the query of a waiting call in
\* its input, every reader has ended, and the call still waits with its Event
\* unset and no reply cached.
C14_Witness ==
    /\ process # 0 /\ procState[process] = "exited"
    /\ \A r \in Readers : rpc[r] = "off"
    /\ exits = {}
    /\ \E t \in Threads :
          /\ Waiting(t)
          /\ qid[t] \in stdin[process]
          /\ qid[t] \notin events
          /\ qid[t] \notin DOMAIN responses

\* start() is held at the start of its reader threads because the model has
\* no reader thread left to start.
AtReaderBound ==
    \E t \in Threads : pc[t] = "start_poll" /\ \A r \in Readers : rpc[r] # "off"

\* C15: every analyze call that has begun ends (with a result, with no
\* result or with an error), whatever the engine does.
C15_EveryCallEnds ==
    \A i \in Ids : (status[i] = "inflight") ~> (Ended(i) \/ AtReaderBound)

\* The files start() is to find: the engine executable and the model file.
RequiredFiles == {"katago_path", "model_path"}

PollStep(t) == pc[t] = "start_poll" /\ pc'[t] # "start_poll"

\* C17: when the launched process has exited by the end of the grace period
\* start() raises the error that carries what the process printed on stderr,
\* starts no reader and leaves the client not alive; when the process is
\* alive both readers are started and start() returns; and a reader is
\* started by no other step (a stderr reader that runs may go over to the
\* stream of a newer process, which adds no reader).
C17_DiedAtStartup ==
    /\ [][\A t \in Threads :
            (PollStep(t) /\ process # 0 /\ procState[process] = "exited") =>
                /\ startup_error' = [path |-> "none", text |-> errpipe[process]]
                /\ rpc' = rpc /\ estream' = estream
                /\ ~IsAlive'
                /\ pc'[t] = "idle"
                /\ InSend(t) => status'[qid[t]] = "error_start"]_vars
    /\ [][\A t \in Threads :
            (PollStep(t) /\ IsAlive) =>
                /\ \E r \in Readers : rpc[r] = "off" /\ rpc'[r] = "loop"
                /\ process \in estream'
                /\ pc'[t] = (IF InSend(t) THEN "send_alive2" ELSE "idle")
                /\ status' = status
                /\ startup_error' = startup_error]_vars
    /\ [][((\E r \in Readers : rpc[r] = "off" /\ rpc'[r] # "off")
             \/ Cardinality(estream') > Cardinality(estream)) =>
                \E t \in Threads : PollStep(t) /\ IsAlive /\ status' = status]_vars

\* C17 witness: start() has failed with the error carrying the stderr text of
\* a process that exited within the grace period; the client is not alive
\* and no reader runs.
C17_Witness ==
    /\ startup_error.path = "none" /\ startup_error.text > 0
    /\ process # 0 /\ procState[process] = "exited"
    /\ \A r \in Readers : rpc[r] = "off"
    /\ exits = {}
    /\ estream = {}
    /\ stderr_lines = 0

\* Everything but the callers' positions.
clientState == <<qid, nextId, procVars, clientVars, lock, stops, readerVars,
                 histVars, unlocked, envVars>>

\* C18: a stop() that finds no process handle returns and changes nothing;
\* a stop() that finds one ends the process, and when it returns the handle
\* is released and the client is not alive, so that a further stop() finds no
\* handle and is the call that changes nothing.
C18_StopIdempotent ==
    /\ [][\A t \in Threads :
            (pc[t] = "idle" /\ pc'[t] = "stop_none") =>
                process = 0 /\ UNCHANGED clientState]_vars
    /\ [][\A t \in Threads :
            (pc[t] = "stop_none" /\ pc'[t] # "stop_none") =>
                pc'[t] = "idle" /\ UNCHANGED clientState]_vars
    /\ [][\A t \in Threads :
            (pc[t] = "idle" /\ pc'[t] = "stop_wait") =>
                process # 0 /\ procState'[process] = "exited" /\ ~IsAlive']_vars
    /\ [][\A t \in Threads :
            (pc[t] = "stop_wait" /\ pc'[t] # "stop_wait") =>
                pc'[t] = "idle" /\ process' = 0 /\ ~IsAlive']_vars
    /\ [][\A t \in Threads :
            (pc[t] = "idle" /\ pc'[t] \in {"stop_none", "stop_wait"}) =>
                (pc'[t] = "stop_none" <=> process = 0)]_vars

\* C18 witness: one stop() has ended a process and released its handle, and
\* a further stop() is under way that has found no handle.
C18_Witness ==
    /\ stops = 1
    /\ process = 0
    /\ \E p \in Pids : procState[p] = "exited"
    /\ \E t \in Threads : pc[t] = "stop_none"

\* C19: a call that ends by timeout hands its caller, with the no-result
\* outcome, the last stderr lines captured from the engine.
C19_TimeoutCarriesDiagnostics ==
    [][\A t \in Threads :
          (Waiting(t) /\ qid[t] \notin events /\ pc'[t] = "idle") =>
              /\ status'[qid[t]] = "noresult"
              /\ stderr_output'[qid[t]] = StderrTail]_vars

\* C20: when start() returns with the process it has launched, the reply
\* cache holds none of the entries it held when that process was launched.
C20_RestartClearsCache ==
    [][\A t \in Threads :
          (PollStep(t) /\ IsAlive) => DOMAIN responses' \cap launch_cache = {}]_vars

\* The most lines of self._stderr_lines any message of the client uses.
HistoryBound == SendTail

\* C21: the client never retains more stderr lines than the recent history
\* its error messages use.
C21_HistoryBounded == stderr_lines <= HistoryBound

\* Board sizes whose every column has a letter.
LetteredBoard(n) == n <= Len(letters)

\* C24 as stated: the round trip gives back (row, col) on every board size.
C24_RoundTripEveryBoard ==
    codec_out.op = "coord" =>
        codec_out.back = Returns(<<codec_in.row, codec_in.col>>)

\* C24: on every board of at most 19 lines, translating a point to its GTP
\* name and back gives the point.
C24_RoundTrip ==
    (codec_out.op = "coord" /\ LetteredBoard(codec_in.board_size)) =>
        codec_out.back = Returns(<<codec_in.row, codec_in.col>>)

\* C24 witness: the point (3, 15) of the 19x19 board went to Q16 and back.
C24_Witness ==
    /\ codec_out.op = "coord"
    /\ codec_in = [op |-> "coord", board_size |-> 19, row |-> 3, col |-> 15]
    /\ codec_out.gtp = Returns(<<"Q", "1", "6">>)
    /\ codec_out.back = Returns(<<3, 15>>)

\* How often the candidate with this move and this visit count occurs.
Occurs(move_infos, move, visits) ==
    Cardinality({k \in 1..Len(move_infos) :
                    move_infos[k].move = move /\ move_infos[k].visits = visits})

\* The candidates of the reply that was decoded, with the visit count an
\* entry without one stands for.
RawCandidates ==
    LET raw == Get(codec_in.response, "moveInfos", << >>) IN
    [k \in 1..Len(raw) |-> [move |-> raw[k].move, visits |-> Get(raw[k], "visits", 0)]]

\* C23: the candidate list of the decoded result is a permutation of the
\* candidates of the reply, and no candidate has fewer visits than the next.
C23_CandidatesSortedByVisits ==
    codec_out.op = "parse" =>
        LET out == codec_out.result.val.move_infos IN
        /\ codec_out.result.err = "none"
        /\ Len(out) = Len(RawCandidates)
        /\ \A k \in 1..Len(RawCandidates) :
              Occurs(out, RawCandidates[k].move, RawCandidates[k].visits)
                = Occurs(RawCandidates, RawCandidates[k].move, RawCandidates[k].visits)
        /\ \A k \in 1..(Len(out) - 1) : out[k].visits >= out[k + 1].visits

\* C23 witness: a reply that lists D4 with 1 visit, Q16 with 2 and D4 with 0
\* was decoded to Q16, D4, D4.
C23_Witness ==
    /\ codec_out.op = "parse"
    /\ "moveInfos" \in DOMAIN codec_in.response
    /\ Len(codec_in.response.moveInfos) = 3
    /\ RawCandidates = <<[move |-> "D4", visits |-> 1], [move |-> "Q16", visits |-> 2],
                         [move |-> "D4", visits |-> 0]>>
    /\ codec_out.result.val.move_infos[1].move = "Q16"
    /\ codec_out.result.val.move_infos[2].visits = 1
    /\ codec_out.result.val.move_infos[3].visits = 0

\* C25: decoding never raises for an absent field, and a reply without
\* rootInfo is decoded to win probability 0.5, score lead 0.0 and 0 visits.
C25_DefaultsForAbsentFields ==
    codec_out.op = "parse" =>
        /\ codec_out.result.err = "none"
        /\ "rootInfo" \notin DOMAIN codec_in.response =>
              /\ codec_out.result.val.root_winrate = 50
              /\ codec_out.result.val.root_score_lead = 0
              /\ codec_out.result.val.root_visits = 0

\* C25 witness: a reply with neither rootInfo nor id, whose one candidate has
\* no visits and no winrate, was decoded.
C25_Witness ==
    /\ codec_out.op = "parse"
    /\ DOMAIN codec_in.response = {"moveInfos"}
    /\ Len(codec_in.response.moveInfos) = 1
    /\ DOMAIN codec_in.response.moveInfos[1] = {"move"}
    /\ codec_out.result.err = "none"
    /\ codec_out.result.val.root_winrate = 50
    /\ codec_out.result.val.move_infos[1].visits = 0
    /\ codec_out.result.val.move_infos[1].winrate = 50

\* C26: encoding never raises on the rules name; a name that is in the
\* whitelist once lower-cased is sent as that entry, every other name as
\* "chinese".
C26_RulesFallback ==
    codec_out.op = "build" =>
        /\ codec_out.query.err = "none"
        /\ LET sent == codec_out.query.val.rules
               low  == [k \in 1..Len(codec_in.state.rules) |->
                           Lower(codec_in.state.rules[k])] IN
           IF low \in rules_map THEN sent = low
           ELSE sent = <<"c", "h", "i", "n", "e", "s", "e">>

\* C26 witness: "ancient", which is no whitelist entry, was sent as "chinese".
C26_Witness ==
    /\ codec_out.op = "build"
    /\ codec_in.state.rules = <<"a", "n", "c", "i", "e", "n", "t">>
    /\ codec_out.query.val.rules = <<"c", "h", "i", "n", "e", "s", "e">>

\* C28: analyzeTurns is the one-element list of the length of the query's
\* move list; the move list has one entry per move of the position, in the
\* same order, a pass as "pass" and a point as its GTP name; and no point of
\* any board has the GTP name "pass".
C28_AnalyzeAfterAllMoves ==
    /\ codec_out.op = "coord" => codec_out.gtp.val # PassText
    /\ codec_out.op = "build" =>
          LET q == codec_out.query.val
              st == codec_in.state IN
          /\ codec_out.query.err = "none"
          /\ q.analyzeTurns = <<Len(q.moves)>>
          /\ Len(q.moves) = Len(st.moves)
          /\ \A k \in 1..Len(st.moves) :
                /\ q.moves[k][1] = st.moves[k][1]
                /\ (st.moves[k][2] = {}) <=> (q.moves[k][2] = PassText)
                /\ \A c \in st.moves[k][2] :
                      q.moves[k][2] = coord_to_gtp(c[1], c[2], st.board_size).val

\* C28 witness: a position of two moves, a black stone and a white pass, was
\* encoded.
C28_Witness ==
    /\ codec_out.op = "build"
    /\ codec_in.state.board_size = 19
    /\ codec_in.state.moves = <<<<"B", {<<3, 15>>}>>, <<"W", {}>>>>
    /\ codec_out.query.val.moves = <<<<"B", <<"Q", "1", "6">>>>, <<"W", PassText>>>>
    /\ codec_out.query.val.analyzeTurns = <<2>>

\* C27: whatever failure a tool meets, its call returns a text and no
\* exception leaves it.
C27_ToolsReturnText ==
    codec_out.op = "tool" => codec_out.outcome.kind = "text"

\* The thread t gets its query through stdin.write.
WritesQuery(t) == pc[t] = "write" /\ pc'[t] = "flush"

\* The reader r completes the store of the reply to a call that has not ended.
StoresInFlightReply(r) ==
    /\ rpc[r] = "store" /\ rpc'[r] = "loop"
    /\ rline[r].kind = "reply"
    /\ status[rline[r].id] = "inflight"

\* The thread t, its query sent and its handle signalled, ends its call.
EndsSignalled(t) ==
    /\ pc[t] \in {"wait_lookup", "waiting", "pop"}
    /\ qid[t] \in events
    /\ pc'[t] = "idle"

\* C29: the handle of a query is in the pending table when the query is
\* written, so the reply to a call still in flight finds the handle and sets
\* it; and a call whose handle was set, even before the caller began to wait,
\* ends by returning its reply.
C29_HandleBeforeWrite ==
    /\ [][\A t \in Threads : WritesQuery(t) => qid[t] \in pending_requests]_vars
    /\ [][\A r \in Readers : StoresInFlightReply(r) =>
            /\ rline[r].id \in pending_requests
            /\ rline[r].id \in events']_vars
    /\ [][\A t \in Threads : EndsSignalled(t) =>
            /\ status'[qid[t]] = "result"
            /\ returned'[qid[t]] = Reply(qid[t])]_vars

\* C29 witness: the reply to a query is in the cache and its handle is set
\* while the caller has not yet looked its handle up.
C29_Witness ==
    \E t \in Threads :
        /\ pc[t] \in {"flush", "wait_lookup"}
        /\ qid[t] \in events
        /\ qid[t] \in DOMAIN responses
        /\ responses[qid[t]] = Reply(qid[t])

\* The thread t takes its reply out of the cache and returns.
PopsReply(t) == pc[t] = "pop" /\ pc'[t] = "idle" /\ status'[qid[t]] = "result"

\* The reader r completes the store of a line under the key i.
StoresUnder(r, i) ==
    /\ rpc[r] = "store" /\ rpc'[r] = "loop"
    /\ StoreKey(rline[r]) = i

\* C30: the waiter that was signalled returns the cached reply of its own id
\* and removes that entry and no other; an entry enters the cache only when
\* the reader stores a line, so after a result for an id answered once the
\* cache has no entry for the id; and a call returns at most once, so no
\* cached reply is returned by two calls.
C30_PopRemovesReply ==
    /\ [][\A t \in Threads : PopsReply(t) =>
            /\ qid[t] \in DOMAIN responses
            /\ returned'[qid[t]] = responses[qid[t]]
            /\ DOMAIN responses' = DOMAIN responses \ {qid[t]}
            /\ qid[t] \notin DOMAIN returned
            /\ \A j \in DOMAIN returned : returned'[j] = returned[j]]_vars
    /\ [][\A i \in Ids : (i \notin DOMAIN responses /\ i \in DOMAIN responses') =>
            \E r \in Readers : StoresUnder(r, i)]_vars
    /\ [](\A t, u \in Threads : (t # u /\ qid[t] # 0) => qid[t] # qid[u])

\* C30 witness: a call has returned its reply and the cache has no entry for
\* its id.
C30_Witness ==
    \E i \in Ids :
        /\ status[i] = "result" /\ returned[i] = Reply(i)
        /\ i \notin DOMAIN responses

\* The thread t, its query sent, ends its call without a result.
EndsWithoutResult(t) ==
    /\ pc[t] \in {"wait_lookup", "waiting", "pop"}
    /\ pc'[t] = "idle"
    /\ status'[qid[t]] # "result"

\* The result is the decoding of the reply: its id and root figures, and its
\* candidates, each as often as the reply lists it, most visits first.
DecodingOf(result, reply) ==
    /\ result.id = reply.id
    /\ result.root_winrate = reply.rootInfo.winrate
    /\ result.root_score_lead = reply.rootInfo.scoreLead
    /\ result.root_visits = reply.rootInfo.visits
    /\ Len(result.move_infos) = Len(reply.moveInfos)
    /\ \A k \in 1..Len(reply.moveInfos) :
          Occurs(result.move_infos, reply.moveInfos[k].move, reply.moveInfos[k].visits)
            = Occurs(reply.moveInfos, reply.moveInfos[k].move, reply.moveInfos[k].visits)
    /\ \A k \in 1..(Len(result.move_infos) - 1) :
          result.move_infos[k].visits >= result.move_infos[k + 1].visits

ProcessesLine(r) == rpc[r] \in {"readline", "lock", "store"} /\ rpc'[r] # rpc[r]

\* The cache entries and the handles of the ids other than i are as before.
OnlyTouches(i) ==
    /\ \A j \in (DOMAIN responses \cup DOMAIN responses') \ {i} :
          /\ j \in DOMAIN responses /\ j \in DOMAIN responses'
          /\ responses'[j] = responses[j]
    /\ events' \ {i} = events \ {i}

\* C31: the processing of one stdout line adds or removes no handle; only
\* the store of a line with an id changes the cache or sets a handle, and then
\* only the entry and the handle of that id, the handle only when it is
\* pending; every other step of the reader, a line with no id included,
\* leaves the cache and every handle as they were.
C31_LineTouchesOwnIdOnly ==
    [][\A r \in Readers : ProcessesLine(r) =>
          /\ pending_requests' = pending_requests
          /\ IF rpc[r] = "store" /\ rline[r].kind = "reply"
             THEN /\ OnlyTouches(rline[r].id)
                  /\ rline[r].id \notin pending_requests => events' = events
             ELSE responses' = responses /\ events' = events]_vars

\* C31 witness: a reply with an id of no request is in the cache next to the
\* reply to a request, whose handle is set, and no other handle is.
C31_Witness ==
    /\ 0 \in DOMAIN responses
    /\ \E i \in Ids : i \in DOMAIN responses /\ events = {i} /\ 0 \notin events

\* C32: no reader thread ends with an exception that nothing catches,
\* however stop() interleaves with it.
C32_ReadersEndHandled == "unhandled" \notin exits

\* start() has launched the process p and has not started its readers yet.
ReadersNotStarted(p) == process = p /\ \E t \in OneCaller : pc[t] = "start_poll"

\* C33: a reader reads the stdout of the process it was started for: with
\* one caller, no reader is in readline on the stdout of a process whose
\* start() has yet to start the readers of that process.
C33_ReadersReadOwnProcess ==
    \A r \in Readers : rpc[r] = "readline" => ~ ReadersNotStarted(rstream[r])

\* The letters A to T in order, I left out.
NotI(c) == c # "I"
AToTWithoutI == SelectSeq(SubSeq(UpperCase, 1, 20), NotI)

\* C34: the GTP name of the point (row, col) of a board of N lines is the
\* letter number col of A..T without I (J for col 8), followed by the decimal
\* number N - row: N for the top row 0 and 1 for the bottom row N - 1.
C34_GtpName ==
    (codec_out.op = "coord" /\ codec_in.col < Len(AToTWithoutI)) =>
        LET name == codec_out.gtp.val
            N    == codec_in.board_size IN
        /\ codec_out.gtp.err = "none"
        /\ Head(name) = AToTWithoutI[codec_in.col + 1]
        /\ codec_in.col = 8 => Head(name) = "J"
        /\ ParseInt(Tail(name)) = N - codec_in.row
        /\ codec_in.row = 0 => Tail(name) = Decimal(N)
        /\ codec_in.row = N - 1 => Tail(name) = <<"1">>

\* C34 witness: the bottom point of column 8 of the 19x19 board is J1.
C34_Witness ==
    /\ codec_out.op = "coord"
    /\ codec_in = [op |-> "coord", board_size |-> 19, row |-> 18, col |-> 8]
    /\ codec_out.gtp = Returns(<<"J", "1">>)

\* The stones a list of [colour, GTP name] entries of a query puts on the
\* board of the query, as <<row, col, colour>> with the row counted from the
\* top; a pass puts none.
RECURSIVE StonesOf(_, _, _)
StonesOf(board, entries, n) ==
    IF entries = << >> THEN board
    ELSE LET e == Head(entries) IN
         IF e[2] = PassText THEN StonesOf(board, Tail(entries), n)
         ELSE LET p == gtp_to_coord(e[2], n).val IN
              StonesOf(Play(board, p[1], p[2], e[1]), Tail(entries), n)

\* The board the query describes: its initialStones, then its moves.
QueryBoard(query) ==
    StonesOf(StonesOf({}, query.initialStones, query.boardXSize),
             query.moves, query.boardXSize)

\* C35: the initialStones and the moves of the query built for a position
\* read from a file describe the board of the position's grid.
C35_QueryConveysGrid ==
    codec_out.op = "read" =>
        /\ codec_out.query.err = "none"
        /\ QueryBoard(codec_out.query.val) = codec_out.state.board

\* The array has exactly one value for every point of the board.
FitsBoard(ownership, n) == \E o \in ownership : Len(o) = n * n

\* C36: an ownership array is drawn as a territory map, one letter a point,
\* exactly when it has one value for every point of the board; for a
\* missing, an empty or a wrongly sized array the answer is the "not
\* available" text and no element of the array is read.
C36_MapOnlyForFittingArray ==
    codec_out.op = "ownership" =>
        LET n == codec_in.board_size IN
        IF FitsBoard(codec_in.ownership, n)
        THEN /\ codec_out.map.text = "=== Territory Map ==="
             /\ Len(codec_out.map.rows) = n
             /\ \A row \in 1..n : Len(codec_out.map.rows[row]) = n
             /\ codec_out.map.reads = 0..(n * n - 1)
        ELSE /\ codec_out.map.text = NotAvailable
             /\ codec_out.map.reads = {}

\* C36 witness: an array of three values was given for the board of two
\* lines and the answer was the "not available" text.
C36_Witness ==
    /\ codec_out.op = "ownership"
    /\ codec_in.board_size = 2
    /\ codec_in.ownership = {<<70, 0 - 70, 0>>}
    /\ codec_out.map.text = NotAvailable
    /\ codec_out.map.reads = {}

\* C37: whatever analyze_position returns or raises, the position it was
\* given has the move list, the grid, the player to move, the rules and the
\* komi it had before the call.
C37_PositionUnchanged ==
    codec_out.op = "analyze" =>
        /\ codec_out.call.state.moves = codec_in.state.moves
        /\ codec_out.call.state.board = codec_in.state.board
        /\ codec_out.call.state.current_player = codec_in.state.current_player
        /\ codec_out.call.state.rules = codec_in.state.rules
        /\ codec_out.call.state.komi = codec_in.state.komi

\* C37 witness: a position of two moves and a setup stone was analysed, a
\* result was returned, and the position still has its two moves and rules.
C37_Witness ==
    /\ codec_out.op = "analyze"
    /\ codec_in.outcome = "reply"
    /\ codec_out.call.result.err = "none"
    /\ codec_out.call.result.val.turn_number = 2
    /\ Len(codec_out.call.state.moves) = 2
    /\ Cardinality(codec_out.call.state.board) = 3
    /\ codec_out.call.state.rules = <<"j", "a", "p", "a", "n", "e", "s", "e">>

\* The waiter t, woken by its handle, leaves _wait_for_response.
WokenReturns(t) == pc[t] = "pop" /\ pc'[t] = "idle"

\* C38: as long as the call of an id has not returned the reply, an id whose
\* handle is set has a reply with that id in the cache; so the waiter that
\* was woken by its handle returns a result, never no-result.
C38_SignalledMeansCached ==
    /\ [](\A i \in events : status[i] # "result" =>
             i \in DOMAIN responses /\ responses[i].id = i)
    /\ [][\A t \in Threads : WokenReturns(t) =>
             status'[qid[t]] = "result" /\ qid[t] \in DOMAIN returned']_vars

\* C38 witness: a waiter has been woken by its handle and has not taken its
\* reply yet, while the other caller still waits.
C38_Witness ==
    \E t, u \in Threads :
        /\ pc[t] = "pop" /\ qid[t] \in events /\ qid[t] \in DOMAIN responses
        /\ pc[u] = "waiting" /\ qid[u] \notin events

\* The call with the id i ended with the failure of its write step: the
\* RuntimeError of a broken pipe or the AttributeError of a released handle.
WriteFailed(i) == status[i] \in {"error_comm", "error_attr"}

\* C39: a call whose write step failed has left no handle in the pending
\* table.
C39_WriteFailureRemovesHandle ==
    \A i \in Ids : WriteFailed(i) => i \notin pending_requests

\* C40: a reply with the id of the query and neither rootInfo nor moveInfos
\* makes analyze_position return a result, not None and not an exception:
\* the id of the reply, win probability 0.5, score lead 0, visits 0 and no
\* candidate.
C40_BareReplyGivesDefaults ==
    (codec_out.op = "analyze" /\ codec_in.outcome = "error_reply") =>
        LET result == codec_out.call.result IN
        /\ result.err = "none"
        /\ result.val.id = ErrorReply.id
        /\ result.val.root_winrate = 50
        /\ result.val.root_score_lead = 0
        /\ result.val.root_visits = 0
        /\ result.val.move_infos = << >>

\* C40 witness: a position of one move got the error object as its reply and
\* the result has the defaults and no candidate.
C40_Witness ==
    /\ codec_out.op = "analyze"
    /\ codec_in.outcome = "error_reply"
    /\ Len(codec_in.state.moves) = 1
    /\ codec_out.call.result.err = "none"
    /\ codec_out.call.result.val.root_winrate = 50
    /\ codec_out.call.result.val.move_infos = << >>
    /\ codec_out.call.result.val.turn_number = 1
====
